---- MODULE Spec2Model ----
(***************************************************************************)
(* Authentication core of picoclaw: the TokenManager of                    *)
(* scripts/email_dashboard.py (credential file, refresh-token grant,       *)
(* device-code flow) and the SAML2 bridge of scripts/moodle_sso_refresh.py *)
(* (refresh_token and its FormParser).                                     *)
(***************************************************************************)
EXTENDS Integers, Sequences, FiniteSets, TLC

\* ------------------------------------------------------------------------
\* Bounds of the model
\* ------------------------------------------------------------------------
MaxNow == 8             \* the clock is not advanced past this value
MaxPolls == 3           \* token requests of one device-code flow
MaxTags == 4            \* start tags of a page fed to FormParser

\* ------------------------------------------------------------------------
\* Program constants
\* ------------------------------------------------------------------------
TOKEN_EXPIRY_MARGIN == 300
DefaultTokenExpiresIn == 3600
DefaultInterval == 5
DefaultDeviceExpiresIn == 900
SlowDownStep == 5

\* ------------------------------------------------------------------------
\* Input domains
\* ------------------------------------------------------------------------
Accounts == {"a", "b"}
Passwords == {"pw"}
OAuthAccounts == {"a"}      \* the accounts that sign in with OAuth2
DeviceAccessToken == "at1"  \* tokens issued to the device-code grant
DeviceRefreshToken == "rt1"
RefreshAccessToken == "at2" \* tokens issued to the refresh-token grant
RefreshRefreshToken == "rt2"
TokenExpiresIn == {300, 301}
Latency == {0, 1}
ServerIntervals == {1}       \* the interval a device-code response may carry
ServerExpiresIns == {7}      \* the expires_in a device-code response may carry
None == "None"

\* ------------------------------------------------------------------------
\* Python dictionaries: functions with a finite domain of keys
\* ------------------------------------------------------------------------
EmptyDict == [k \in {} |-> None]

\* dict.get(key, default)
Get(d, key, default) == IF key \in DOMAIN d THEN d[key] ELSE default

\* dict.update(u): the keys of u override those of d
Update(d, u) == [k \in (DOMAIN d) \cup (DOMAIN u) |-> IF k \in DOMAIN u THEN u[k] ELSE d[k]]

\* all_creds[key] = value
Put(d, key, value) == [k \in (DOMAIN d) \cup {key} |-> IF k = key THEN value ELSE d[k]]

\* all_creds.pop(key, None)
Pop(d, key) == [k \in (DOMAIN d) \ {key} |-> d[k]]

\* ------------------------------------------------------------------------
\* The credential file ~/.email_dashboard/credentials.json
\*   missing     the file does not exist
\*   unreadable  read_text raises OSError
\*   garbage     the text is not JSON (json.JSONDecodeError)
\*   list        valid JSON whose top level is not an object
\*   dict        a JSON object keyed by account; d is the parsed object
\* ------------------------------------------------------------------------
MissingFile == [kind |-> "missing"]
UnreadableFile == [kind |-> "unreadable"]
GarbageFile == [kind |-> "garbage"]
ListFile == [kind |-> "list"]

\* cred_file.write_text(json.dumps(all_creds, indent=2))
DumpFile(all_creds) == [kind |-> "dict", d |-> all_creds]

\* cred_file.exists()
Exists(f) == f.kind # "missing"

\* json.loads(cred_file.read_text()): the parsed value or the exception
ReadJson(f) ==
  CASE f.kind = "unreadable" -> [exc |-> "OSError"]
    [] f.kind = "garbage" -> [exc |-> "JSONDecodeError"]
    [] f.kind = "list" -> [exc |-> "none", t |-> "list"]
    [] f.kind = "dict" -> [exc |-> "none", t |-> "dict", d |-> f.d]

VARIABLES
  file,      \* the credential file on disk
  creds,     \* creds[a]: self._creds of the TokenManager of account a
  now,       \* time.time(), in whole seconds
  ret,       \* the last TokenManager call: operation, account, result
  dcPc,      \* run_device_code_flow: "idle", "Polling" or its outcome
  dcAcct,    \* the account whose TokenManager runs the flow
  dc,        \* the device-code response (dc) of the flow
  interval,  \* the local interval of the poll loop
  expires_at_poll,  \* the local expires_at_poll of the poll loop
  sleeps,    \* time.sleep calls of the flow
  posts,     \* the responses to the token requests of the flow, in order
  fpPage,    \* FormParser: the start tags of the page still to be fed
  fpFed,     \* FormParser: the start tags handled so far
  fp,        \* FormParser: the parser object (action, fields)
  spc,       \* refresh_token (SSO): the request the run is about to issue
  sreqs,     \* the names of the requests issued by the run, in order
  slast,     \* the last request issued: name, url and data
  sresp,     \* the response to the last request
  sconfig,   \* the local config (step 2), while it is still used
  sflow,     \* the local flow_token (step 3), while it is still used
  spage,     \* the local page
  surl,      \* the local url
  sout,      \* how the run ended: exit (err), raise, or return of a token
  fmode,     \* the permission bits of the credential file ("none": no file)
  dmode,     \* the permission bits of its directory ("none": no directory)
  ppc,       \* _save, statement by statement: the statement to execute next
  written,   \* a _save of this process wrote the file that exists now
  conn,      \* EmailDashboard.conn: "None", a live session, or a dead one
  wpc,       \* _with_retry: the statement to execute next, or how it ended
  wlog,      \* the calls made by _with_retry, in order, with their results
  wout,      \* the exception _with_retry raised ("none" if it returned)
  cpc,       \* EmailDashboard.connect: the statement to execute next, or how it ended
  cpre       \* the credential file and self._creds when connect was entered

storeVars == <<file, creds, now, ret>>

dcVars == <<dcPc, dcAcct, dc, interval, expires_at_poll, sleeps, posts>>

fpVars == <<fpPage, fpFed, fp>>

samlVars == <<spc, sreqs, slast, sresp, sconfig, sflow, spage, surl, sout>>

permVars == <<fmode, dmode, ppc, written>>

retryVars == <<conn, wpc, wlog, wout>>

connVars == <<cpc, cpre>>

vars == <<file, creds, now, ret, dcPc, dcAcct, dc, interval, expires_at_poll, sleeps, posts,
          fpPage, fpFed, fp, spc, sreqs, slast, sresp, sconfig, sflow, spage, surl, sout,
          fmode, dmode, ppc, written, conn, wpc, wlog, wout, cpc, cpre>>

\* TokenManager.auth_type
auth_type(c) == Get(c, "auth_type", None)

\* TokenManager.has_saved_creds
has_saved_creds(c) == auth_type(c) # None

\* TokenManager._load: the account's entry, {} on a caught failure
_load(f, a) ==
  IF Exists(f)
    THEN LET r == ReadJson(f) IN
         IF r.exc # "none" THEN [exc |-> "none", val |-> EmptyDict]
         ELSE IF r.t = "dict" THEN [exc |-> "none", val |-> Get(r.d, a, EmptyDict)]
         ELSE [exc |-> "AttributeError"]
    ELSE [exc |-> "none", val |-> EmptyDict]

\* _save without the merge: the file is rewritten with this account only
_save_NoMerge(f, a, c) ==
  LET r == IF Exists(f) THEN ReadJson(f) ELSE [exc |-> "none", t |-> "dict", d |-> EmptyDict] IN
  IF r.exc = "none" /\ r.t # "dict" THEN [exc |-> "TypeError", file |-> f]
  ELSE [exc |-> "none", file |-> DumpFile(Put(EmptyDict, a, c))]

\* TokenManager._save: merge the account's credential into the file
_save(f, a, c) ==
  LET r == IF Exists(f) THEN ReadJson(f) ELSE [exc |-> "none", t |-> "dict", d |-> EmptyDict] IN
  IF r.exc # "none" THEN [exc |-> "none", file |-> DumpFile(Put(EmptyDict, a, c))]
  ELSE IF r.t = "dict" THEN [exc |-> "none", file |-> DumpFile(Put(r.d, a, c))]
  ELSE [exc |-> "TypeError", file |-> f]

\* clear that deletes the file whatever it holds
ClearFile_AlwaysUnlink(f, a) ==
  IF Exists(f)
    THEN LET r == ReadJson(f) IN
         IF r.exc = "none" /\ r.t # "dict" THEN [exc |-> "TypeError", file |-> f]
         ELSE [exc |-> "none", file |-> MissingFile]
    ELSE [exc |-> "none", file |-> f]

\* the file part of TokenManager.clear
ClearFile(f, a) ==
  IF Exists(f)
    THEN LET r == ReadJson(f) IN
         IF r.exc # "none" THEN [exc |-> "none", file |-> MissingFile]
         ELSE IF r.t = "dict"
           THEN LET all_creds == Pop(r.d, a) IN
                IF DOMAIN all_creds # {}
                  THEN [exc |-> "none", file |-> DumpFile(all_creds)]
                  ELSE [exc |-> "none", file |-> MissingFile]
         ELSE [exc |-> "TypeError", file |-> f]
    ELSE [exc |-> "none", file |-> f]

\* ------------------------------------------------------------------------
\* Responses of the token endpoint
\* ------------------------------------------------------------------------
\* bodies that carry an access token: refresh_token and expires_in are optional
TokenBodies(at, rt) ==
  { [access_token |-> at], [access_token |-> at, refresh_token |-> rt] }
  \cup { [access_token |-> at, expires_in |-> e] : e \in TokenExpiresIn }
  \cup { [access_token |-> at, refresh_token |-> rt, expires_in |-> e] : e \in TokenExpiresIn }

\* bodies that carry an error instead
ErrorBodies ==
  { [error |-> "authorization_pending", error_description |-> ""],
    [error |-> "authorization_pending", error_description |-> "AADSTS65001"],
    [error |-> "slow_down", error_description |-> ""],
    [error |-> "invalid_grant", error_description |-> ""],
    [error |-> "invalid_grant", error_description |-> "AADSTS65001"],
    EmptyDict }

\* the outcomes of requests.post(...) of the refresh-token grant
RefreshResponses ==
  { [kind |-> "transport"], [kind |-> "http_error"] }
  \cup { [kind |-> "ok", body |-> b] :
           b \in TokenBodies(RefreshAccessToken, RefreshRefreshToken)
                 \cup {EmptyDict, [error |-> "invalid_grant", error_description |-> ""]} }

\* _refresh_token that updates self._creds but does not call _save
_refresh_token_NoSave(f, a, c, resp, t, lat) ==
  LET refresh == Get(c, "refresh_token", None) IN
  IF refresh = None
    THEN [exc |-> "none", val |-> None, request |-> FALSE, creds |-> c, file |-> f, now |-> t]
  ELSE IF resp.kind \in {"transport", "http_error"}
    THEN [exc |-> "none", val |-> None, request |-> TRUE, creds |-> c, file |-> f, now |-> t + lat]
  ELSE IF "access_token" \notin DOMAIN resp.body
    THEN [exc |-> "KeyError", val |-> None, request |-> TRUE, creds |-> c, file |-> f, now |-> t + lat]
  ELSE LET token_data == resp.body
           c2 == Update(c, [access_token |-> token_data["access_token"],
                            refresh_token |-> Get(token_data, "refresh_token", refresh),
                            expires_at |-> (t + lat) + Get(token_data, "expires_in", DefaultTokenExpiresIn)]) IN
       [exc |-> "none", val |-> c2["access_token"], request |-> TRUE, creds |-> c2, file |-> f, now |-> t + lat]

\* _refresh_token that forgets the access token when the request fails
_refresh_token_Forget(f, a, c, resp, t, lat) ==
  LET refresh == Get(c, "refresh_token", None) IN
  IF refresh = None
    THEN [exc |-> "none", val |-> None, request |-> FALSE, creds |-> c, file |-> f, now |-> t]
  ELSE IF resp.kind \in {"transport", "http_error"}
    THEN [exc |-> "none", val |-> None, request |-> TRUE,
          creds |-> Update(c, [access_token |-> None]), file |-> f, now |-> t + lat]
  ELSE IF "access_token" \notin DOMAIN resp.body
    THEN [exc |-> "KeyError", val |-> None, request |-> TRUE, creds |-> c, file |-> f, now |-> t + lat]
  ELSE LET token_data == resp.body
           c2 == Update(c, [access_token |-> token_data["access_token"],
                            refresh_token |-> Get(token_data, "refresh_token", refresh),
                            expires_at |-> (t + lat) + Get(token_data, "expires_in", DefaultTokenExpiresIn)])
           s == _save(f, a, c2) IN
       IF s.exc # "none"
         THEN [exc |-> s.exc, val |-> None, request |-> TRUE, creds |-> c2, file |-> s.file, now |-> t + lat]
         ELSE [exc |-> "none", val |-> c2["access_token"], request |-> TRUE, creds |-> c2, file |-> s.file, now |-> t + lat]

\* TokenManager._refresh_token, called at time t; the request takes lat
_refresh_token(f, a, c, resp, t, lat) ==
  LET refresh == Get(c, "refresh_token", None) IN
  IF refresh = None
    THEN [exc |-> "none", val |-> None, request |-> FALSE, creds |-> c, file |-> f, now |-> t]
  ELSE IF resp.kind \in {"transport", "http_error"}
    THEN [exc |-> "none", val |-> None, request |-> TRUE, creds |-> c, file |-> f, now |-> t + lat]
  ELSE IF "access_token" \notin DOMAIN resp.body
    THEN [exc |-> "KeyError", val |-> None, request |-> TRUE, creds |-> c, file |-> f, now |-> t + lat]
  ELSE LET token_data == resp.body
           c2 == Update(c, [access_token |-> token_data["access_token"],
                            refresh_token |-> Get(token_data, "refresh_token", refresh),
                            expires_at |-> (t + lat) + Get(token_data, "expires_in", DefaultTokenExpiresIn)])
           s == _save(f, a, c2) IN
       IF s.exc # "none"
         THEN [exc |-> s.exc, val |-> None, request |-> TRUE, creds |-> c2, file |-> s.file, now |-> t + lat]
         ELSE [exc |-> "none", val |-> c2["access_token"], request |-> TRUE, creds |-> c2, file |-> s.file, now |-> t + lat]

\* ------------------------------------------------------------------------
\* FormParser (moodle_sso_refresh.py): HTMLParser calls handle_starttag
\* once for each start tag of the page, in document order, with the tag
\* name and the attribute names in lower case
\* ------------------------------------------------------------------------
\* URLs: an absolute URL has a host, a path and a query; q is the domain
\* name the query mentions, if any.  A relative reference has a path only.
AbsUrl(host, path, q) == [abs |-> TRUE, host |-> host, path |-> path, q |-> q]
RelUrl(path) == [abs |-> FALSE, host |-> "", path |-> path, q |-> ""]
EmptyStr == RelUrl("")
NoUrl == RelUrl(None)      \* the None of a variable that holds a URL

\* s.startswith("http")
StartsWithHttp(u) == u.abs

\* urllib.parse.urljoin(base, ref) for an absolute base
urljoin(base, ref) ==
  IF ref.abs THEN ref
  ELSE IF ref.path = "" THEN base
  ELSE AbsUrl(base.host, ref.path, "")

\* domain in url: a substring test on the whole URL
InUrl(domain, u) == u.abs /\ (u.host = domain \/ u.q = domain)

\* str.lower() on the values of the method attribute
Lower(m) == IF m = "POST" THEN "post" ELSE m

\* FormParser.__init__
FormParserInit == [action |-> NoUrl, fields |-> EmptyDict]

\* FormParser.handle_starttag(tag, attrs); d is dict(attrs)
handle_starttag(p, tag, d) ==
  LET p1 == IF tag = "form" /\ Lower(Get(d, "method", "")) = "post"
              THEN [p EXCEPT !.action = Get(d, "action", EmptyStr)]
              ELSE p
      name == Get(d, "name", "")
      val == Get(d, "value", "") IN
  IF tag = "input" /\ Get(d, "type", None) = "hidden" /\ name # ""
    THEN [p1 EXCEPT !.fields = Put(p1.fields, name, val)]
    ELSE p1

\* the start tags a page is built from
Tag(tag, d) == [tag |-> tag, attrs |-> d]

FormA == Tag("form", [method |-> "post", action |-> RelUrl("/a")])
FormB == Tag("form", [method |-> "POST", action |-> RelUrl("/b")])
FormGet == Tag("form", [method |-> "get", action |-> RelUrl("/g")])
HiddenX == Tag("input", [type |-> "hidden", name |-> "x", value |-> "1"])
HiddenSaml == Tag("input", [type |-> "hidden", name |-> "SAMLResponse", value |-> "resp"])
TextInput == Tag("input", [type |-> "text", name |-> "y", value |-> "2"])

StartTags == {FormA, FormB, FormGet, HiddenX, HiddenSaml, TextInput}

\* the pages fed to the parser: at most MaxTags start tags
Pages == UNION { [1..n -> StartTags] : n \in 0..MaxTags }

\* fp.feed(page): handle_starttag for every start tag, in order
RECURSIVE Feed(_, _)
Feed(p, tags) ==
  IF tags = << >> THEN p
  ELSE Feed(handle_starttag(p, Head(tags).tag, Head(tags).attrs), Tail(tags))

\* ------------------------------------------------------------------------
\* refresh_token (moodle_sso_refresh.py): data
\* ------------------------------------------------------------------------
MOODLE_HOST == "qmplus.qmul.ac.uk"
MS_HOST == "login.microsoftonline.com"
MS_BASE == AbsUrl(MS_HOST, "", "")
MOODLE_URL == AbsUrl(MOODLE_HOST, "", "")
Username == "user"
Password == "secret"

\* a response body: the marker substrings of its text, the $Config blob
\* (hasConfig: the regular expression matches), the AADSTS code and the
\* sErrTxt the regular expressions find, and its start tags
PageOf(text, hasConfig, config, code, errtxt, tags) ==
  [text |-> text, hasConfig |-> hasConfig, config |-> config,
   code |-> code, errtxt |-> errtxt, tags |-> tags]

NoPage == PageOf({}, FALSE, EmptyDict, "", "", << >>)

\* marker in page
HasText(page, marker) ==
  \/ marker \in page.text
  \/ \E i \in 1..Len(page.tags) :
        \E k \in (DOMAIN page.tags[i].attrs) \cap {"name", "value"} :
          page.tags[i].attrs[k] = marker

\* the $Config blobs of the identity provider's pages
FullConfig == [sFT |-> "ft", urlPost |-> RelUrl("/login"), canary |-> "can", sCtx |-> "ctx"]
AbsConfig == [sFT |-> "ft", urlPost |-> AbsUrl(MS_HOST, "/abs", ""), canary |-> "can", sCtx |-> "ctx"]
NoTokenConfig == [urlPost |-> RelUrl("/login"), canary |-> "can", sCtx |-> "ctx"]
NoPostConfig == [sFT |-> "ft", canary |-> "can", sCtx |-> "ctx"]

Configs == {FullConfig, AbsConfig, NoTokenConfig, NoPostConfig}

IdpUrl == AbsUrl(MS_HOST, "/authorize", "")
MoodleUrl == AbsUrl(MOODLE_HOST, "/my", "")
OtherUrl == AbsUrl("other.example", "/", "")
OtherIdpUrl == AbsUrl("other.example", "/", MS_HOST)
OtherMoodleUrl == AbsUrl("other.example", "/", MOODLE_HOST)

\* step 1: the page the redirects end at
EntryResponses ==
  { [kind |-> "transport"] }
  \cup { [kind |-> "ok", url |-> u, page |-> PageOf({}, TRUE, c, "", "", << >>)] :
           u \in {IdpUrl, OtherUrl, OtherIdpUrl}, c \in Configs }
  \cup { [kind |-> "ok", url |-> u, page |-> NoPage] : u \in {IdpUrl, OtherUrl} }

\* step 3: the JSON of GetCredentialType
CredentialTypeResponses ==
  { [kind |-> "transport"] }
  \cup { [kind |-> "ok", body |-> b] :
           b \in { EmptyDict,
                   [FlowToken |-> "ft2"],
                   [Credentials |-> EmptyDict],
                   [Credentials |-> [FederationRedirectUrl |-> ""], FlowToken |-> "ft2"],
                   [Credentials |-> [FederationRedirectUrl |-> "https://adfs"]],
                   [Credentials |-> [FederationRedirectUrl |-> "https://adfs"], FlowToken |-> "ft2"] } }

SamlForm == <<FormB, HiddenSaml>>
TwoForms == <<FormA, HiddenX, FormB, HiddenSaml>>
GetFormSaml == <<FormGet, HiddenSaml>>

\* steps 4 to 6: the pages that follow the password
LoginPages ==
  { NoPage,
    PageOf({"AADSTS"}, TRUE, FullConfig, "AADSTS50126", "bad password", << >>),
    PageOf({"AADSTS"}, FALSE, EmptyDict, "", "", << >>),
    PageOf({"AADSTS", "KmsiInterrupt"}, TRUE, FullConfig, "AADSTS50126", "bad password", SamlForm),
    PageOf({"KmsiInterrupt"}, TRUE, FullConfig, "", "", << >>),
    PageOf({"StaySignedIn"}, TRUE, AbsConfig, "", "", << >>),
    PageOf({"KmsiInterrupt"}, TRUE, NoPostConfig, "", "", << >>),
    PageOf({"KmsiInterrupt"}, FALSE, EmptyDict, "", "", << >>),
    PageOf({}, FALSE, EmptyDict, "", "", SamlForm),
    PageOf({}, FALSE, EmptyDict, "", "", TwoForms),
    PageOf({}, FALSE, EmptyDict, "", "", GetFormSaml),
    PageOf({"SAMLResponse"}, FALSE, EmptyDict, "", "", << >>) }

LoginResponses ==
  { [kind |-> "transport"] }
  \cup { [kind |-> "ok", url |-> u, page |-> pg] :
           u \in {IdpUrl, MoodleUrl, OtherMoodleUrl}, pg \in LoginPages }

\* the response to the SAML form post
SamlPostResponses ==
  { [kind |-> "transport"] }
  \cup { [kind |-> "ok", url |-> u, page |-> NoPage] : u \in {IdpUrl, MoodleUrl, OtherMoodleUrl} }

\* the token parameter of the redirect: data base64 characters followed
\* by eq '=' characters; text is what the canonical encoding decodes to,
\* a sequence of characters in which ":::" counts as one
RawToken(data, eq, text) == [data |-> data, eq |-> eq, text |-> text]

Delim == ":::"

TokenTexts ==
  { <<"P">>, <<"P", Delim, "T">>, <<"P", Delim, "T", Delim, "Q">>, <<"P", Delim>> }

RawTokens ==
  { RawToken(d, e, t) : d \in {2, 3, 4, 5}, e \in {0, 1, 2}, t \in TokenTexts }

\* step 7: the response of launch.php; hasToken: the pattern matches
LaunchResponses ==
  { [kind |-> "transport"] }
  \cup { [kind |-> "ok", status |-> st, hasToken |-> FALSE, raw |-> RawToken(0, 0, << >>)] :
           st \in {200, 301, 302, 303, 307} }
  \cup { [kind |-> "ok", status |-> st, hasToken |-> TRUE, raw |-> r] :
           st \in {200, 303}, r \in RawTokens }

\* a restoration that leaves the value as it was extracted
FixPadding_Keep(raw) == raw

\* lines 195-197: restore the padding
FixPadding(raw) ==
  LET padding == 4 - ((raw.data + raw.eq) % 4) IN
  IF padding # 4 THEN [raw EXCEPT !.eq = raw.eq + padding] ELSE raw

\* the padding of the canonical encoding with data characters
CanonicalPad(data) == (4 - (data % 4)) % 4

\* base64.b64decode(raw).decode(errors="replace")
B64Decode(raw) ==
  IF raw.data % 4 # 1 /\ raw.eq >= CanonicalPad(raw.data)
    THEN [exc |-> "none", text |-> raw.text]
    ELSE [exc |-> "binascii.Error", text |-> << >>]

\* a split that finds no delimiter
Split_Whole(text) == << text >>

\* decoded.split(":::")
RECURSIVE Split(_)
Split(text) ==
  IF text = << >> THEN << << >> >>
  ELSE IF Head(text) = Delim THEN << << >> >> \o Split(Tail(text))
  ELSE LET rest == Split(Tail(text)) IN
       << <<Head(text)>> \o Head(rest) >> \o Tail(rest)

\* how a run ends
Running == [kind |-> "running", err |-> "", detail |-> << >>]
Exit(e, detail) == [kind |-> "exit", err |-> e, detail |-> detail]
Raise(e) == [kind |-> "raise", err |-> e, detail |-> << >>]
Return(token) == [kind |-> "return", err |-> "", detail |-> token]

\* a request of the run
Request(name, url, data) == [name |-> name, url |-> url, data |-> data]
NoRequest == Request(None, NoUrl, EmptyDict)
NoResponse == [kind |-> "none"]

InitFiles == {MissingFile, UnreadableFile, GarbageFile, ListFile}

NoSession == EmptyDict

\* no device-code flow is running
InitDc ==
  /\ dcPc = "idle"
  /\ dcAcct = None
  /\ dc = NoSession
  /\ interval = 0
  /\ expires_at_poll = 0
  /\ sleeps = 0
  /\ posts = << >>

\* no page is being parsed
InitFp ==
  /\ fpPage = << >>
  /\ fpFed = << >>
  /\ fp = FormParserInit

\* the permission bits are not followed: _save and clear are single steps
NoPerm ==
  /\ fmode = "untracked"
  /\ dmode = "untracked"
  /\ ppc = "idle"
  /\ written = FALSE

\* no EmailDashboard is running
NoRetry ==
  /\ conn = "None"
  /\ wpc = "idle"
  /\ wlog = << >>
  /\ wout = "none"

\* connect is not running
NoConnect ==
  /\ cpc = "idle"
  /\ cpre = [file |-> MissingFile, creds |-> EmptyDict]

\* refresh_token (SSO) has not issued a request yet
InitSso ==
  /\ spc = "sso_init"
  /\ sreqs = << >>
  /\ slast = NoRequest
  /\ sresp = NoResponse
  /\ sconfig = EmptyDict
  /\ sflow = None
  /\ spage = NoPage
  /\ surl = NoUrl
  /\ sout = Running

\* no TokenManager call has been made
InitStore ==
  /\ creds = [a \in Accounts |-> EmptyDict]
  /\ now = 0
  /\ ret = [op |-> "init"]

Init ==
  /\ file \in InitFiles
  /\ InitStore
  /\ InitDc
  /\ InitFp
  /\ InitSso
  /\ NoPerm
  /\ NoRetry
  /\ NoConnect

\* the process is single-threaded: no other call runs during the poll loop
Idle == dcPc = "idle"

\* TokenManager(email_address): construction loads the account's entry
Load(a) ==
  LET r == _load(file, a) IN
  /\ Idle
  /\ creds' = IF r.exc = "none" THEN [creds EXCEPT ![a] = r.val] ELSE creds
  /\ ret' = [op |-> "load", acct |-> a, exc |-> r.exc]
  /\ UNCHANGED <<file, now>>
  /\ UNCHANGED dcVars
  /\ UNCHANGED fpVars
  /\ UNCHANGED <<samlVars, permVars, retryVars, connVars>>

\* a password stored into the credential that is there
BasicCreds_Merge(c, password) == Update(c, [auth_type |-> "basic", password |-> password])

\* line 107: the credential that replaces c
BasicCreds(c, password) == [auth_type |-> "basic", password |-> password]

\* TokenManager.save_basic
save_basic(a, password) ==
  LET c == BasicCreds(creds[a], password)
      r == _save(file, a, c) IN
  /\ Idle
  /\ creds' = [creds EXCEPT ![a] = c]
  /\ file' = r.file
  /\ ret' = [op |-> "save_basic", acct |-> a, exc |-> r.exc]
  /\ UNCHANGED now
  /\ UNCHANGED dcVars
  /\ UNCHANGED fpVars
  /\ UNCHANGED <<samlVars, permVars, retryVars, connVars>>

\* TokenManager.clear
clear(a) ==
  LET r == ClearFile(file, a) IN
  /\ Idle
  /\ creds' = [creds EXCEPT ![a] = EmptyDict]
  /\ file' = r.file
  /\ ret' = [op |-> "clear", acct |-> a, exc |-> r.exc]
  /\ UNCHANGED now
  /\ UNCHANGED dcVars
  /\ UNCHANGED fpVars
  /\ UNCHANGED <<samlVars, permVars, retryVars, connVars>>

\* the margin test with <= instead of <
TokenValid_Inclusive(t, expires_at) == t <= expires_at - TOKEN_EXPIRY_MARGIN

\* line 116 (and the negation of line 125): the cached token is still valid
TokenValid(t, expires_at) == t < expires_at - TOKEN_EXPIRY_MARGIN

\* the record of a get_access_token call: result, whether _refresh_token
\* was called and sent its request, the time at entry (t0) and after the
\* request (t1), the credential before the call and the response
TokenCall(a, exc, val, refresh, request, t0, t1, pre, resp) ==
  [op |-> "get_access_token", acct |-> a, exc |-> exc, val |-> val,
   refresh |-> refresh, request |-> request, t0 |-> t0, t1 |-> t1,
   pre |-> pre, resp |-> resp]

\* TokenManager.get_access_token, with the outcome of the refresh request
\* (if one is sent) and the time that request takes
get_access_token(a, resp, lat) ==
  LET c == creds[a]
      expires_at == Get(c, "expires_at", 0) IN
  /\ Idle
  /\ now + lat <= MaxNow
  /\ IF auth_type(c) # "oauth2"
       THEN /\ ret' = TokenCall(a, "none", None, FALSE, FALSE, now, now, c, NoResponse)
            /\ UNCHANGED <<file, creds, now>>
     ELSE IF TokenValid(now, expires_at)
       THEN /\ ret' = TokenCall(a, "none", Get(c, "access_token", None), FALSE, FALSE,
                                now, now, c, NoResponse)
            /\ UNCHANGED <<file, creds, now>>
     ELSE LET r == _refresh_token(file, a, c, resp, now, lat) IN
            /\ ret' = TokenCall(a, r.exc, r.val, TRUE, r.request, now, r.now, c,
                                IF r.request THEN resp ELSE NoResponse)
            /\ creds' = [creds EXCEPT ![a] = r.creds]
            /\ file' = r.file
            /\ now' = r.now
  /\ UNCHANGED dcVars
  /\ UNCHANGED fpVars
  /\ UNCHANGED <<samlVars, permVars, retryVars, connVars>>

\* the clock advances between calls
Tick ==
  /\ Idle
  /\ now < MaxNow
  /\ now' = now + 1
  /\ UNCHANGED <<file, creds, ret>>
  /\ UNCHANGED dcVars
  /\ UNCHANGED fpVars
  /\ UNCHANGED <<samlVars, permVars, retryVars, connVars>>

\* ------------------------------------------------------------------------
\* run_device_code_flow
\* ------------------------------------------------------------------------
\* the outcomes of the device-code request
DeviceCodeBodies ==
  { [device_code |-> "dcode"] }
  \cup { [device_code |-> "dcode", interval |-> i] : i \in ServerIntervals }
  \cup { [device_code |-> "dcode", expires_in |-> e] : e \in ServerExpiresIns }
  \cup { [device_code |-> "dcode", interval |-> i, expires_in |-> e] :
           i \in ServerIntervals, e \in ServerExpiresIns }

DeviceCodeResponses ==
  { [kind |-> "transport"], [kind |-> "http_error"] }
  \cup { [kind |-> "ok", body |-> b] : b \in DeviceCodeBodies }

\* the outcomes of one token request of the poll loop
PollResponses ==
  { [kind |-> "transport"] }
  \cup { [kind |-> "ok", body |-> b] :
           b \in TokenBodies(DeviceAccessToken, DeviceRefreshToken) \cup ErrorBodies }

\* lines 157-168: the device-code request and the locals of the loop
DcRequest(a, resp) ==
  /\ Idle
  /\ dcAcct' = a
  /\ sleeps' = 0
  /\ posts' = << >>
  /\ IF resp.kind # "ok"
       THEN /\ dcPc' = "NetworkError"
            /\ ret' = [op |-> "run_device_code_flow", acct |-> a, exc |-> "RequestException", val |-> None]
            /\ UNCHANGED <<dc, interval, expires_at_poll>>
       ELSE /\ dcPc' = "Polling"
            /\ dc' = resp.body
            /\ interval' = Get(resp.body, "interval", DefaultInterval)
            /\ expires_at_poll' = now + Get(resp.body, "expires_in", DefaultDeviceExpiresIn)
            /\ ret' = [op |-> "run_device_code_flow", acct |-> a, exc |-> "running", val |-> None]
  /\ UNCHANGED <<file, creds, now>>
  /\ UNCHANGED fpVars
  /\ UNCHANGED <<samlVars, permVars, retryVars, connVars>>

\* a classification that polls again after an error response
PollOutcome_RetryFailed(body) ==
  IF "access_token" \in DOMAIN body THEN "Success"
  ELSE IF Get(body, "error_description", "") = "AADSTS65001" THEN "ConsentRequired"
  ELSE "pending"

\* the classification of a token response body, lines 180-209
PollOutcome(body) ==
  LET err == Get(body, "error", "") IN
  IF "access_token" \in DOMAIN body THEN "Success"
  ELSE IF err = "authorization_pending" THEN "pending"
  ELSE IF err = "slow_down" THEN "slow_down"
  ELSE IF Get(body, "error_description", "") = "AADSTS65001" THEN "ConsentRequired"
  ELSE "Failed"

\* the exception (or exit) that ends the flow in a terminal outcome
OutcomeExc(o) ==
  CASE o = "ConsentRequired" -> "SystemExit"
    [] o = "Failed" -> "RuntimeError"
    [] o = "Timeout" -> "TimeoutError"
    [] o = "NetworkError" -> "RequestException"
    [] OTHER -> "none"

\* a loop that requests first and sleeps between requests
SleepCount_PollFirst(n, requests) == IF requests = << >> THEN n ELSE n + 1

\* line 171: every iteration sleeps before it requests a token
SleepCount(n, requests) == n + 1

\* a loop that ignores slow_down
NextInterval_Ignore(i, o) == i

\* lines 192-196: the interval after a response with outcome o
NextInterval(i, o) == IF o = "slow_down" THEN i + SlowDownStep ELSE i

\* a credential that keeps the lifetime instead of the time of expiry
DeviceCreds_Lifetime(body, t) ==
  [auth_type |-> "oauth2",
   access_token |-> body["access_token"],
   refresh_token |-> Get(body, "refresh_token", None),
   expires_at |-> Get(body, "expires_in", DefaultTokenExpiresIn)]

\* lines 181-186: the credential made of a token response received at t
DeviceCreds(body, t) ==
  [auth_type |-> "oauth2",
   access_token |-> body["access_token"],
   refresh_token |-> Get(body, "refresh_token", None),
   expires_at |-> t + Get(body, "expires_in", DefaultTokenExpiresIn)]

\* a sleep during which the clock stands still
AfterSleep_Frozen(t, i) == t

\* line 171: the clock after time.sleep(i) that starts at t
AfterSleep(t, i) == t + i

\* one iteration of the while loop, lines 170-209: the loop test holds,
\* sleep(interval), one token request and the handling of its response
DcPoll(resp) ==
  LET a == dcAcct
      t == AfterSleep(now, interval) IN
  /\ dcPc = "Polling"
  /\ now < expires_at_poll
  /\ Len(posts) < MaxPolls
  /\ t <= MaxNow
  /\ now' = t
  /\ sleeps' = SleepCount(sleeps, posts)
  /\ posts' = Append(posts, resp)
  /\ UNCHANGED <<dcAcct, dc, expires_at_poll>>
  /\ UNCHANGED fpVars
  /\ UNCHANGED <<samlVars, permVars, retryVars, connVars>>
  /\ IF resp.kind # "ok"
       THEN /\ dcPc' = "NetworkError"
            /\ ret' = [ret EXCEPT !.exc = "RequestException"]
            /\ UNCHANGED <<file, creds, interval>>
       ELSE LET body == resp.body
                o == PollOutcome(body) IN
            /\ interval' = NextInterval(interval, o)
            /\ CASE o = "Success" ->
                   LET c == DeviceCreds(body, t)
                       s == _save(file, a, c) IN
                   /\ creds' = [creds EXCEPT ![a] = c]
                   /\ file' = s.file
                   /\ dcPc' = IF s.exc = "none" THEN "Success" ELSE "SaveError"
                   /\ ret' = [ret EXCEPT !.exc = s.exc,
                                         !.val = IF s.exc = "none" THEN body["access_token"] ELSE None]
                 [] o \in {"pending", "slow_down"} ->
                   /\ UNCHANGED <<file, creds, ret, dcPc>>
                 [] OTHER ->
                   /\ dcPc' = o
                   /\ ret' = [ret EXCEPT !.exc = OutcomeExc(o)]
                   /\ UNCHANGED <<file, creds>>

\* the call returns or raises: its frame is discarded
DcReturn ==
  /\ dcPc \notin {"idle", "Polling"}
  /\ dcPc' = "idle"
  /\ dcAcct' = None
  /\ dc' = NoSession
  /\ interval' = 0
  /\ expires_at_poll' = 0
  /\ sleeps' = 0
  /\ posts' = << >>
  /\ UNCHANGED <<file, creds, now, ret>>
  /\ UNCHANGED fpVars
  /\ UNCHANGED <<samlVars, permVars, retryVars, connVars>>

\* a timeout that also forgets the account's credential
DcTimeout_Clear ==
  /\ dcPc = "Polling"
  /\ ~(now < expires_at_poll)
  /\ dcPc' = "Timeout"
  /\ creds' = [creds EXCEPT ![dcAcct] = EmptyDict]
  /\ ret' = [ret EXCEPT !.exc = OutcomeExc("Timeout")]
  /\ UNCHANGED <<file, now, dcAcct, dc, interval, expires_at_poll, sleeps, posts>>
  /\ UNCHANGED fpVars
  /\ UNCHANGED <<samlVars, permVars, retryVars, connVars>>

\* the loop test fails: line 211
DcTimeout ==
  /\ dcPc = "Polling"
  /\ ~(now < expires_at_poll)
  /\ dcPc' = "Timeout"
  /\ ret' = [ret EXCEPT !.exc = OutcomeExc("Timeout")]
  /\ UNCHANGED <<file, creds, now, dcAcct, dc, interval, expires_at_poll, sleeps, posts>>
  /\ UNCHANGED fpVars
  /\ UNCHANGED <<samlVars, permVars, retryVars, connVars>>

Next ==
  \/ \E a \in Accounts : Load(a)
  \/ \E a \in Accounts, p \in Passwords : save_basic(a, p)
  \/ \E a \in Accounts : clear(a)
  \/ \E a \in Accounts, resp \in RefreshResponses, lat \in Latency : get_access_token(a, resp, lat)
  \/ Tick
  \/ \E a \in OAuthAccounts, resp \in DeviceCodeResponses : DcRequest(a, resp)
  \/ \E resp \in PollResponses : DcPoll(resp)
  \/ DcTimeout
  \/ DcReturn

Spec == Init /\ [][Next]_vars

\* ------------------------------------------------------------------------
\* One call of run_device_code_flow, with the sequential control flow of
\* the loop as fairness
\* ------------------------------------------------------------------------
\* sessions short enough to run to their expiry within MaxNow and MaxPolls
ShortExpiresIns == {2, 3}

ShortDeviceCodeResponses ==
  { [kind |-> "transport"], [kind |-> "http_error"] }
  \cup { [kind |-> "ok", body |-> [device_code |-> "dcode", interval |-> i, expires_in |-> e]] :
           i \in ServerIntervals, e \in ShortExpiresIns }

\* the token responses: the requests that are answered
TokenResponses == { r \in PollResponses : r.kind = "ok" }

\* a TokenManager exists only if its constructor returned: _load raises on
\* a file that is JSON but not an object
InitPoll ==
  /\ file \in InitFiles \ {ListFile}
  /\ InitStore
  /\ InitDc
  /\ InitFp
  /\ InitSso
  /\ NoPerm
  /\ NoRetry
  /\ NoConnect

NextPoll ==
  \/ \E resp \in ShortDeviceCodeResponses : DcRequest("a", resp)
  \/ \E resp \in TokenResponses : DcPoll(resp)
  \/ DcTimeout

\* the loop is sequential code: when an iteration or the raise after the
\* loop is the next statement, it is executed
SpecPoll ==
  /\ InitPoll
  /\ [][NextPoll]_vars
  /\ WF_vars(\E resp \in TokenResponses : DcPoll(resp))
  /\ WF_vars(DcTimeout)

\* ------------------------------------------------------------------------
\* FormParser on its own: a page is fed tag by tag
\* ------------------------------------------------------------------------
InitForm ==
  /\ file = MissingFile
  /\ InitStore
  /\ InitDc
  /\ InitSso
  /\ NoPerm
  /\ NoRetry
  /\ NoConnect
  /\ fpPage \in Pages
  /\ fpFed = << >>
  /\ fp = FormParserInit

\* fp.feed(page) reaches the next start tag
HandleStartTag ==
  /\ fpPage # << >>
  /\ fp' = handle_starttag(fp, Head(fpPage).tag, Head(fpPage).attrs)
  /\ fpFed' = Append(fpFed, Head(fpPage))
  /\ fpPage' = Tail(fpPage)
  /\ UNCHANGED storeVars
  /\ UNCHANGED dcVars
  /\ UNCHANGED <<samlVars, permVars, retryVars, connVars>>

NextForm == HandleStartTag

SpecForm == InitForm /\ [][NextForm]_vars

\* ------------------------------------------------------------------------
\* refresh_token (moodle_sso_refresh.py): one action for each request of
\* the run, with the code that follows it up to the next request
\* ------------------------------------------------------------------------
InitSaml ==
  /\ file = MissingFile
  /\ InitStore
  /\ InitDc
  /\ InitFp
  /\ InitSso
  /\ NoPerm
  /\ NoRetry
  /\ NoConnect

\* the run is over: err() exits, an exception is raised, or a token returned
Stop(out) ==
  /\ spc' = "done"
  /\ sout' = out
  /\ sconfig' = EmptyDict
  /\ sflow' = None
  /\ UNCHANGED <<spage, surl>>

\* lines 170-171: the checkpoint before launch.php
Checkpoint(page, url) ==
  IF ~InUrl(MOODLE_HOST, url)
    THEN /\ spc' = "done"
         /\ sout' = Exit("SSOIncomplete", << >>)
         /\ spage' = page
         /\ surl' = url
         /\ sconfig' = EmptyDict
         /\ sflow' = None
    ELSE /\ spc' = "launch"
         /\ spage' = page
         /\ surl' = url
         /\ sconfig' = EmptyDict
         /\ sflow' = None
         /\ UNCHANGED sout

\* lines 159-162: is there a SAML form to post
SamlFormFound(page) ==
  LET f == Feed(FormParserInit, page.tags) IN
  /\ HasText(page, "SAMLResponse")
  /\ f.action # NoUrl /\ f.action # EmptyStr
  /\ "SAMLResponse" \in DOMAIN f.fields

\* lines 158-171 up to the next request
AfterInterrupt(page, url) ==
  IF SamlFormFound(page)
    THEN /\ spc' = "saml_post"
         /\ spage' = page
         /\ surl' = url
         /\ sconfig' = EmptyDict
         /\ sflow' = None
         /\ UNCHANGED sout
    ELSE Checkpoint(page, url)

\* step 1 and 2, lines 61-72, and the flowToken of the next request
SsoInit(r) ==
  /\ spc = "sso_init"
  /\ sresp' = r
  /\ sreqs' = Append(sreqs, "sso_init")
  /\ slast' = Request("sso_init", AbsUrl(MOODLE_HOST, "/auth/saml2/login.php", ""), EmptyDict)
  /\ IF r.kind # "ok" THEN Stop(Raise("RequestException"))
     ELSE IF ~InUrl(MS_HOST, r.url) THEN Stop(Exit("ProtocolMismatch", << >>))
     ELSE IF ~r.page.hasConfig THEN Stop(Exit("ParseError", << >>))
     ELSE IF "sFT" \notin DOMAIN r.page.config THEN Stop(Raise("KeyError"))
     ELSE /\ spc' = "credential_type"
          /\ sconfig' = r.page.config
          /\ spage' = r.page
          /\ surl' = r.url
          /\ UNCHANGED <<sflow, sout>>
  /\ UNCHANGED <<storeVars, dcVars, fpVars, permVars, retryVars, connVars>>

\* step 3 without the federation check
GetCredentialType_NoFedCheck(r2) ==
  /\ spc = "credential_type"
  /\ sresp' = r2
  /\ sreqs' = Append(sreqs, "credential_type")
  /\ slast' = Request("credential_type", AbsUrl(MS_HOST, "/common/GetCredentialType", ""),
                      [username |-> Username, flowToken |-> sconfig["sFT"]])
  /\ IF r2.kind # "ok" THEN Stop(Raise("RequestException"))
     ELSE /\ spc' = "password"
          /\ sflow' = Get(r2.body, "FlowToken", sconfig["sFT"])
          /\ UNCHANGED <<sconfig, spage, surl, sout>>
  /\ UNCHANGED <<storeVars, dcVars, fpVars, permVars, retryVars, connVars>>

\* step 3, lines 75-92
GetCredentialType(r2) ==
  /\ spc = "credential_type"
  /\ sresp' = r2
  /\ sreqs' = Append(sreqs, "credential_type")
  /\ slast' = Request("credential_type", AbsUrl(MS_HOST, "/common/GetCredentialType", ""),
                      [username |-> Username, flowToken |-> sconfig["sFT"]])
  /\ IF r2.kind # "ok" THEN Stop(Raise("RequestException"))
     ELSE LET cred == r2.body
              fed_url == Get(Get(cred, "Credentials", EmptyDict), "FederationRedirectUrl", "") IN
          IF fed_url # "" THEN Stop(Exit("FederationNotSupported", <<fed_url>>))
          ELSE /\ spc' = "password"
               /\ sflow' = Get(cred, "FlowToken", sconfig["sFT"])
               /\ UNCHANGED <<sconfig, spage, surl, sout>>
  /\ UNCHANGED <<storeVars, dcVars, fpVars, permVars, retryVars, connVars>>

\* the page carries the "Stay signed in?" signature
HasInterrupt(page) == HasText(page, "KmsiInterrupt") \/ HasText(page, "StaySignedIn")

\* a classification that looks for the interrupt before the auth error
Step5_InterruptFirst(page) ==
  IF HasInterrupt(page) /\ page.hasConfig THEN "continue"
  ELSE IF HasText(page, "AADSTS") THEN "auth_failed"
  ELSE "skip"

\* lines 123-156: what follows the page of the password response
Step5(page) ==
  IF HasText(page, "AADSTS") THEN "auth_failed"
  ELSE IF HasInterrupt(page) /\ page.hasConfig THEN "continue"
  ELSE "skip"

\* steps 4 and 5, lines 95-156, and step 6 up to its request
SubmitPassword(r3) ==
  LET url0 == Get(sconfig, "urlPost", EmptyStr)
      post_url == IF ~StartsWithHttp(url0) THEN urljoin(AbsUrl(MS_HOST, "/", ""), url0) ELSE url0 IN
  /\ spc = "password"
  /\ sresp' = r3
  /\ sreqs' = Append(sreqs, "password")
  /\ slast' = Request("password", post_url,
                      [login |-> Username, passwd |-> Password,
                       canary |-> Get(sconfig, "canary", ""), ctx |-> Get(sconfig, "sCtx", ""),
                       flowToken |-> sflow])
  /\ IF r3.kind # "ok" THEN Stop(Raise("RequestException"))
     ELSE LET page == r3.page IN
          IF Step5(page) = "auth_failed"
            THEN Stop(Exit("AuthFailed",
                           <<IF page.code # "" THEN page.code ELSE "unknown",
                             IF page.errtxt # "" THEN page.errtxt ELSE "authentication failed">>))
          ELSE IF Step5(page) = "continue"
            THEN /\ spc' = "kmsi"
                 /\ spage' = page
                 /\ surl' = r3.url
                 /\ sconfig' = EmptyDict
                 /\ sflow' = None
                 /\ UNCHANGED sout
          ELSE AfterInterrupt(page, r3.url)
  /\ UNCHANGED <<storeVars, dcVars, fpVars, permVars, retryVars, connVars>>

\* the "Stay signed in?" request, lines 134-152, and step 6 up to its request
KmsiContinue(r4) ==
  LET c2 == spage.config
      url0 == Get(c2, "urlPost", EmptyStr)
      post_url2 == IF ~StartsWithHttp(url0) THEN urljoin(AbsUrl(MS_HOST, "/", ""), url0) ELSE url0 IN
  /\ spc = "kmsi"
  /\ sresp' = r4
  /\ sreqs' = Append(sreqs, "kmsi")
  /\ slast' = Request("kmsi", post_url2,
                      [LoginOptions |-> "1", ctx |-> Get(c2, "sCtx", ""),
                       flowToken |-> Get(c2, "sFT", ""), canary |-> Get(c2, "canary", "")])
  /\ IF r4.kind # "ok" THEN Stop(Raise("RequestException"))
     ELSE AfterInterrupt(r4.page, r4.url)
  /\ UNCHANGED <<storeVars, dcVars, fpVars, permVars, retryVars, connVars>>

\* step 6, lines 163-171
PostSamlForm(r5) ==
  LET f == Feed(FormParserInit, spage.tags)
      action == IF ~StartsWithHttp(f.action) THEN urljoin(surl, f.action) ELSE f.action IN
  /\ spc = "saml_post"
  /\ sresp' = r5
  /\ sreqs' = Append(sreqs, "saml_post")
  /\ slast' = Request("saml_post", action, f.fields)
  /\ IF r5.kind # "ok" THEN Stop(Raise("RequestException"))
     ELSE Checkpoint(r5.page, r5.url)
  /\ UNCHANGED <<storeVars, dcVars, fpVars, permVars, retryVars, connVars>>

\* a status test that accepts every redirection status
StatusAccepted_Any3xx(status) == status \in 300..399

\* line 185: the statuses of launch.php the run goes on with
StatusAccepted(status) == status \in {301, 302, 303}

\* lines 185-205: from the response of launch.php to the token
TokenOf(r6) ==
  IF ~StatusAccepted(r6.status) THEN Exit("UnexpectedResponse", << >>)
  ELSE IF ~r6.hasToken THEN Exit("NoTokenInRedirect", << >>)
  ELSE LET decoded == B64Decode(FixPadding(r6.raw)) IN
       IF decoded.exc # "none" THEN Raise(decoded.exc)
       ELSE LET parts == Split(decoded.text) IN
            IF Len(parts) < 2 THEN Exit("MalformedToken", << >>)
            ELSE Return(parts[2])

\* steps 7 to 11, lines 174-205
MobileLaunch(r6) ==
  /\ spc = "launch"
  /\ sresp' = r6
  /\ sreqs' = Append(sreqs, "launch")
  /\ slast' = Request("launch", AbsUrl(MOODLE_HOST, "/admin/tool/mobile/launch.php", ""),
                      [service |-> "moodle_mobile_app", passport |-> "12345"])
  /\ IF r6.kind # "ok" THEN Stop(Raise("RequestException"))
     ELSE Stop(TokenOf(r6))
  /\ UNCHANGED <<storeVars, dcVars, fpVars, permVars, retryVars, connVars>>

NextSaml ==
  \/ \E r \in EntryResponses : SsoInit(r)
  \/ \E r \in CredentialTypeResponses : GetCredentialType(r)
  \/ \E r \in LoginResponses : SubmitPassword(r)
  \/ \E r \in LoginResponses : KmsiContinue(r)
  \/ \E r \in SamlPostResponses : PostSamlForm(r)
  \/ \E r \in LaunchResponses : MobileLaunch(r)

SpecSaml == InitSaml /\ [][NextSaml]_vars

\* ------------------------------------------------------------------------
\* The two scripts: a process runs either one call of the device-code
\* flow or one run of refresh_token
\* ------------------------------------------------------------------------
\* the process calls run_device_code_flow
StartFlow(resp) ==
  /\ spc = "sso_init"
  /\ DcRequest("a", resp)

\* the process runs refresh_token
StartRun(r) ==
  /\ ret.op = "init"
  /\ SsoInit(r)

NextEither ==
  \/ \E resp \in DeviceCodeResponses \cup ShortDeviceCodeResponses : StartFlow(resp)
  \/ \E resp \in PollResponses : DcPoll(resp)
  \/ DcTimeout
  \/ \E r \in EntryResponses : StartRun(r)
  \/ \E r \in CredentialTypeResponses : GetCredentialType(r)
  \/ \E r \in LoginResponses : SubmitPassword(r)
  \/ \E r \in LoginResponses : KmsiContinue(r)
  \/ \E r \in SamlPostResponses : PostSamlForm(r)
  \/ \E r \in LaunchResponses : MobileLaunch(r)

SpecEither == InitSaml /\ [][NextEither]_vars

\* ------------------------------------------------------------------------
\* _save statement by statement, with the permission bits of the
\* credential file and of its directory
\* ------------------------------------------------------------------------
\* the umask of the process
Umasks == {"022", "077"}

\* the bits of a file created by write_text
CreatedFileMode(u) == IF u = "022" THEN "0644" ELSE "0600"

\* the bits of a directory created by mkdir
CreatedDirMode(u) == IF u = "022" THEN "0755" ELSE "0700"

\* an earlier process may have left a directory and a file, with any bits
InitPermTracked ==
  /\ file \in InitFiles
  /\ InitStore
  /\ InitDc
  /\ InitFp
  /\ InitSso
  /\ fmode \in (IF Exists(file) THEN {"0600", "0644"} ELSE {"none"})
  /\ dmode \in (IF Exists(file) THEN {"0700", "0755"} ELSE {"none", "0700", "0755"})
  /\ ppc = "idle"
  /\ written = FALSE
  /\ NoRetry
  /\ NoConnect

\* save_basic up to the call of _save
SaveBasicCall(a, password) ==
  /\ ppc = "idle"
  /\ creds' = [creds EXCEPT ![a] = BasicCreds(creds[a], password)]
  /\ ret' = [op |-> "save_basic", acct |-> a, exc |-> "running"]
  /\ ppc' = "mkdir"
  /\ UNCHANGED <<file, now, fmode, dmode, written>>
  /\ UNCHANGED <<dcVars, fpVars, samlVars, retryVars, connVars>>

\* line 62: cred_dir.mkdir(parents=True, exist_ok=True)
SaveMkdir(u) ==
  /\ ppc = "mkdir"
  /\ dmode' = IF dmode = "none" THEN CreatedDirMode(u) ELSE dmode
  /\ ppc' = "chmod_dir"
  /\ UNCHANGED <<storeVars, fmode, written>>
  /\ UNCHANGED <<dcVars, fpVars, samlVars, retryVars, connVars>>

\* line 63: os.chmod(cred_dir, 0o700)
SaveChmodDir ==
  /\ ppc = "chmod_dir"
  /\ dmode' = "0700"
  /\ ppc' = "write"
  /\ UNCHANGED <<storeVars, fmode, written>>
  /\ UNCHANGED <<dcVars, fpVars, samlVars, retryVars, connVars>>

\* lines 65-73: read the file, merge the entry, write_text
SaveWrite(u) ==
  LET r == _save(file, ret.acct, creds[ret.acct]) IN
  /\ ppc = "write"
  /\ file' = r.file
  /\ IF r.exc = "none"
       THEN /\ fmode' = IF Exists(file) THEN fmode ELSE CreatedFileMode(u)
            /\ written' = TRUE
            /\ ppc' = "chmod_file"
            /\ UNCHANGED ret
       ELSE /\ ret' = [ret EXCEPT !.exc = r.exc]
            /\ ppc' = "idle"
            /\ UNCHANGED <<fmode, written>>
  /\ UNCHANGED <<creds, now, dmode>>
  /\ UNCHANGED <<dcVars, fpVars, samlVars, retryVars, connVars>>

\* line 74: os.chmod(cred_file, 0o600)
SaveChmodFile ==
  /\ ppc = "chmod_file"
  /\ fmode' = "0600"
  /\ ret' = [ret EXCEPT !.exc = "none"]
  /\ ppc' = "idle"
  /\ UNCHANGED <<file, creds, now, dmode, written>>
  /\ UNCHANGED <<dcVars, fpVars, samlVars, retryVars, connVars>>

\* TokenManager.clear: write_text keeps the bits of the file it rewrites
ClearCall(a) ==
  LET r == ClearFile(file, a) IN
  /\ ppc = "idle"
  /\ creds' = [creds EXCEPT ![a] = EmptyDict]
  /\ file' = r.file
  /\ fmode' = IF Exists(r.file) THEN fmode ELSE "none"
  /\ written' = (written /\ Exists(r.file))
  /\ ret' = [op |-> "clear", acct |-> a, exc |-> r.exc]
  /\ UNCHANGED <<now, dmode, ppc>>
  /\ UNCHANGED <<dcVars, fpVars, samlVars, retryVars, connVars>>

NextPerm ==
  \/ \E a \in Accounts, p \in Passwords : SaveBasicCall(a, p)
  \/ \E u \in Umasks : SaveMkdir(u)
  \/ SaveChmodDir
  \/ \E u \in Umasks : SaveWrite(u)
  \/ SaveChmodFile
  \/ \E a \in Accounts : ClearCall(a)

SpecPerm == InitPermTracked /\ [][NextPerm]_vars

\* ------------------------------------------------------------------------
\* EmailDashboard._with_retry, statement by statement
\* ------------------------------------------------------------------------
\* the credentials of the account whose mailbox is open: none (a password
\* typed in and not saved), a password, a token that is valid, and one
\* that has expired and cannot be refreshed
RetryCreds ==
  { EmptyDict,
    [auth_type |-> "basic", password |-> "pw"],
    [auth_type |-> "oauth2", access_token |-> DeviceAccessToken, refresh_token |-> None,
     expires_at |-> TOKEN_EXPIRY_MARGIN + MaxNow + 1],
    [auth_type |-> "oauth2", access_token |-> DeviceAccessToken, refresh_token |-> None,
     expires_at |-> 0] }

\* what the server does to a connection attempt
ConnectResults == {"ok", "IMAP4.error", "OSError"}

\* what the wrapped operation does on a live session
FnResults == {"none", "IMAP4.abort", "OSError", "IMAP4.error", "ValueError"}

InitRetry ==
  /\ \E c \in RetryCreds :
       /\ creds = [a \in Accounts |-> IF a = "a" THEN c ELSE EmptyDict]
       /\ file = IF c = EmptyDict THEN MissingFile ELSE DumpFile([a |-> c])
  /\ now = 0
  /\ ret = [op |-> "init"]
  /\ InitDc
  /\ InitFp
  /\ InitSso
  /\ NoPerm
  /\ conn \in {"None", "alive"}
  /\ wpc = "idle"
  /\ wlog = << >>
  /\ wout = "none"
  /\ NoConnect

\* an event of the log
Event(ev, res) == [ev |-> ev, res |-> res]

\* _imap_login and _imap_oauth2: IMAP4_SSL(...), then the authentication
ImapConnect(res) ==
  CASE res = "ok" -> [exc |-> "none", conn |-> "alive"]
    [] res = "IMAP4.error" -> [exc |-> "IMAP4.error", conn |-> "dead"]
    [] res = "OSError" -> [exc |-> "OSError", conn |-> "None"]

\* TokenManager.is_token_expired
is_token_expired(c, t) ==
  IF auth_type(c) # "oauth2" THEN TRUE
  ELSE ~TokenValid(t, Get(c, "expires_at", 0))

\* _connect_with_saved, entered with self.conn = cn, the file f and the
\* credential c: the exception it raises, self.conn, self._creds and the
\* file afterwards; resp answers the refresh request of get_access_token
_connect_with_saved(cn, f, c, t, res, resp) ==
  IF auth_type(c) = "basic"
    THEN [exc |-> ImapConnect(res).exc, conn |-> ImapConnect(res).conn, creds |-> c, file |-> f]
  ELSE IF auth_type(c) = "oauth2"
    THEN LET g == IF TokenValid(t, Get(c, "expires_at", 0))
                    THEN [exc |-> "none", val |-> Get(c, "access_token", None), creds |-> c, file |-> f]
                    ELSE _refresh_token(f, "a", c, resp, t, 0) IN
         IF g.exc # "none" THEN [exc |-> g.exc, conn |-> cn, creds |-> g.creds, file |-> g.file]
         ELSE IF g.val = None
           THEN [exc |-> "IMAP4.error", conn |-> cn, creds |-> g.creds, file |-> g.file]
         ELSE [exc |-> ImapConnect(res).exc, conn |-> ImapConnect(res).conn,
               creds |-> g.creds, file |-> g.file]
  ELSE [exc |-> "none", conn |-> cn, creds |-> c, file |-> f]

\* _ensure_connected: the exception it raises, self.conn afterwards, and
\* whether it called _connect_with_saved
_ensure_connected(cn, c, t, res) ==
  IF cn # "None" /\ ~(auth_type(c) = "oauth2" /\ is_token_expired(c, t)) /\ cn = "alive"
    THEN [exc |-> "none", conn |-> cn, reconnect |-> FALSE]
    ELSE LET r == _connect_with_saved("None", file, c, t, res, [kind |-> "transport"]) IN
         [exc |-> r.exc, conn |-> r.conn, reconnect |-> TRUE]

\* a handler that catches every exception
Caught_Any(exc) == exc # "none"

\* line 317: except (imaplib.IMAP4.abort, OSError)
Caught(exc) == exc \in {"IMAP4.abort", "OSError"}

\* fn(*args, **kwargs): the operation uses self.conn
FnOutcomes(cn) ==
  CASE cn = "alive" -> FnResults
    [] cn = "dead" -> {"IMAP4.abort", "OSError", "IMAP4.error"}
    [] cn = "None" -> {"AttributeError"}

\* the server or the network ends the session
Drop ==
  /\ conn = "alive"
  /\ wpc \in {"idle", "fn", "fn_retry"}
  /\ conn' = "dead"
  /\ UNCHANGED <<wpc, wlog, wout>>
  /\ UNCHANGED <<storeVars, dcVars, fpVars, samlVars, permVars, connVars>>

\* line 315: self._ensure_connected() of the try block
TryEnsure(res) ==
  LET r == _ensure_connected(conn, creds["a"], now, res) IN
  /\ wpc = "idle"
  /\ conn' = r.conn
  /\ wlog' = Append(wlog, Event(IF r.reconnect THEN "reconnect" ELSE "noop", r.exc))
  /\ wpc' = IF r.exc = "none" THEN "fn" ELSE IF Caught(r.exc) THEN "handler" ELSE "raised"
  /\ wout' = IF r.exc = "none" \/ Caught(r.exc) THEN wout ELSE r.exc
  /\ UNCHANGED <<storeVars, dcVars, fpVars, samlVars, permVars, connVars>>

\* line 316: return fn(*args, **kwargs) of the try block
TryFn(res) ==
  /\ wpc = "fn"
  /\ res \in FnOutcomes(conn)
  /\ wlog' = Append(wlog, Event("fn", res))
  /\ conn' = IF res \in {"IMAP4.abort", "OSError"} THEN "dead" ELSE conn
  /\ wpc' = IF res = "none" THEN "returned" ELSE IF Caught(res) THEN "handler" ELSE "raised"
  /\ wout' = IF res = "none" \/ Caught(res) THEN wout ELSE res
  /\ UNCHANGED <<storeVars, dcVars, fpVars, samlVars, permVars, connVars>>

\* lines 319-320: self.conn = None; self._ensure_connected()
HandlerEnsure(res) ==
  LET r == _ensure_connected("None", creds["a"], now, res) IN
  /\ wpc = "handler"
  /\ conn' = r.conn
  /\ wlog' = Append(wlog, Event(IF r.reconnect THEN "reconnect" ELSE "noop", r.exc))
  /\ wpc' = IF r.exc = "none" THEN "fn_retry" ELSE "raised"
  /\ wout' = r.exc
  /\ UNCHANGED <<storeVars, dcVars, fpVars, samlVars, permVars, connVars>>

\* line 321: return fn(*args, **kwargs) of the handler
HandlerFn(res) ==
  /\ wpc = "fn_retry"
  /\ res \in FnOutcomes(conn)
  /\ wlog' = Append(wlog, Event("fn", res))
  /\ conn' = IF res \in {"IMAP4.abort", "OSError"} THEN "dead" ELSE conn
  /\ wpc' = IF res = "none" THEN "returned" ELSE "raised"
  /\ wout' = res
  /\ UNCHANGED <<storeVars, dcVars, fpVars, samlVars, permVars, connVars>>

NextRetry ==
  \/ Drop
  \/ \E res \in ConnectResults : TryEnsure(res)
  \/ \E res \in FnResults \cup {"AttributeError"} : TryFn(res)
  \/ \E res \in ConnectResults : HandlerEnsure(res)
  \/ \E res \in FnResults \cup {"AttributeError"} : HandlerFn(res)

SpecRetry == InitRetry /\ [][NextRetry]_vars

\* ------------------------------------------------------------------------
\* EmailDashboard.connect, statement by statement, for the account "a"
\* ------------------------------------------------------------------------
\* the credentials an earlier run can have saved: a password, a token
\* that is valid, an expired one without a refresh token and an expired
\* one with a refresh token
ConnectCreds ==
  (RetryCreds \ {EmptyDict})
  \cup { [auth_type |-> "oauth2", access_token |-> DeviceAccessToken,
          refresh_token |-> DeviceRefreshToken, expires_at |-> 0] }

\* the credential file when the process starts: one of the files without
\* accounts, or an object with entries for some of the accounts
ConnectFiles ==
  (InitFiles \ {ListFile})
  \cup { DumpFile(d) : d \in UNION { [S -> ConnectCreds] : S \in SUBSET Accounts } }

\* TokenManager(email) has loaded the entry of "a", EmailDashboard(tm) has
\* set conn to None, and connect() is entered
InitConnect ==
  /\ file \in ConnectFiles
  /\ creds = [a \in Accounts |-> IF a = "a" THEN _load(file, "a").val ELSE EmptyDict]
  /\ now = 0
  /\ ret = [op |-> "init"]
  /\ InitDc
  /\ InitFp
  /\ InitSso
  /\ NoPerm
  /\ NoRetry
  /\ cpc = "start"
  /\ cpre = [file |-> file, creds |-> creds["a"]]

\* lines 230-234: has_saved_creds, and _connect_with_saved in the try block
ConnectSaved(res, resp) ==
  LET r == _connect_with_saved(conn, file, creds["a"], now, res, resp) IN
  /\ cpc = "start"
  /\ IF has_saved_creds(creds["a"])
       THEN /\ conn' = r.conn
            /\ creds' = [creds EXCEPT !["a"] = r.creds]
            /\ file' = r.file
            /\ cpc' = IF r.exc = "none" THEN "returned"
                      ELSE IF r.exc = "IMAP4.error" THEN "clear"
                      ELSE "raised"
       ELSE /\ cpc' = "choose"
            /\ UNCHANGED <<conn, creds, file>>
  /\ UNCHANGED <<now, ret, wpc, wlog, wout, cpre>>
  /\ UNCHANGED <<dcVars, fpVars, samlVars, permVars>>

\* a handler that logs the warning and does not call clear
ConnectClear_Skip ==
  /\ cpc = "clear"
  /\ cpc' = "choose"
  /\ UNCHANGED <<storeVars, dcVars, fpVars, samlVars, permVars, retryVars, cpre>>

\* lines 235-236: the handler of imaplib.IMAP4.error calls self.tm.clear()
ConnectClear ==
  LET r == ClearFile(file, "a") IN
  /\ cpc = "clear"
  /\ creds' = [creds EXCEPT !["a"] = EmptyDict]
  /\ file' = r.file
  /\ ret' = [op |-> "clear", acct |-> "a", exc |-> r.exc]
  /\ cpc' = IF r.exc = "none" THEN "choose" ELSE "raised"
  /\ UNCHANGED <<now, conn, wpc, wlog, wout, cpre>>
  /\ UNCHANGED <<dcVars, fpVars, samlVars, permVars>>

\* lines 239-247: the chooser; without a terminal, or with any answer
\* other than "1", the device-code flow is taken
ConnectChoose(isatty, choice) ==
  /\ cpc = "choose"
  /\ cpc' = IF isatty /\ choice = "1" THEN "basic" ELSE "oauth2"
  /\ UNCHANGED <<storeVars, dcVars, fpVars, samlVars, permVars, retryVars, cpre>>

\* _connect_basic_interactive, lines 259-276; mentions tells whether the
\* text of the IMAP4.error mentions AUTHENTICATE or LOGIN
ConnectBasic(pw, res, mentions, save) ==
  LET r == ImapConnect(res)
      c == BasicCreds(creds["a"], pw)
      s == _save(file, "a", c) IN
  /\ cpc = "basic"
  /\ conn' = r.conn
  /\ IF r.exc = "none" /\ save = "y"
       THEN /\ creds' = [creds EXCEPT !["a"] = c]
            /\ file' = s.file
            /\ ret' = [op |-> "save_basic", acct |-> "a", exc |-> s.exc]
            /\ cpc' = IF s.exc = "none" THEN "returned" ELSE "raised"
       ELSE /\ cpc' = IF r.exc = "none" THEN "returned"
                      ELSE IF r.exc = "IMAP4.error" /\ mentions THEN "oauth2"
                      ELSE "raised"
            /\ UNCHANGED <<creds, file, ret>>
  /\ UNCHANGED <<now, wpc, wlog, wout, cpre>>
  /\ UNCHANGED <<dcVars, fpVars, samlVars, permVars>>

\* line 279: _connect_oauth2 calls run_device_code_flow
ConnectOauth2(resp) ==
  /\ cpc = "oauth2"
  /\ DcRequest("a", resp)

\* lines 279-280: the flow has ended; its exception leaves connect, its
\* token goes to _imap_oauth2
ConnectOauth2End(res) ==
  LET r == ImapConnect(res) IN
  /\ cpc = "oauth2"
  /\ dcPc \notin {"idle", "Polling"}
  /\ IF dcPc = "Success"
       THEN /\ conn' = r.conn
            /\ cpc' = IF r.exc = "none" THEN "returned" ELSE "raised"
       ELSE /\ cpc' = "raised"
            /\ UNCHANGED conn
  /\ dcPc' = "idle"
  /\ UNCHANGED <<dcAcct, dc, interval, expires_at_poll, sleeps, posts>>
  /\ UNCHANGED <<storeVars, wpc, wlog, wout, cpre>>
  /\ UNCHANGED <<fpVars, samlVars, permVars>>

NextConnect ==
  \/ \E res \in ConnectResults, resp \in RefreshResponses : ConnectSaved(res, resp)
  \/ ConnectClear
  \/ \E isatty \in BOOLEAN, choice \in {"1", "2"} : ConnectChoose(isatty, choice)
  \/ \E pw \in Passwords, res \in ConnectResults, mentions \in BOOLEAN, save \in {"y", "n"} :
       ConnectBasic(pw, res, mentions, save)
  \/ \E resp \in DeviceCodeResponses \cup ShortDeviceCodeResponses : ConnectOauth2(resp)
  \/ \E resp \in PollResponses : DcPoll(resp)
  \/ DcTimeout
  \/ \E res \in ConnectResults : ConnectOauth2End(res)

SpecConnect == InitConnect /\ [][NextConnect]_vars

\* ------------------------------------------------------------------------
\* Properties
\* ------------------------------------------------------------------------
\* the request names of the run
Issued(name) == \E i \in 1..Len(sreqs) : sreqs[i] = name

\* the federation redirect URL a discovery response carries ("" if none)
FedUrlOf(r) ==
  IF r.kind = "ok" /\ "body" \in DOMAIN r /\ "Credentials" \in DOMAIN r.body
       /\ "FederationRedirectUrl" \in DOMAIN r.body["Credentials"]
    THEN r.body["Credentials"]["FederationRedirectUrl"]
    ELSE ""

\* C1: when the answer to the credential-type request carries a non-empty
\* federation redirect URL, the run has ended with FederationNotSupported
\* and no request carrying the password has been issued (a run that has
\* ended issues no further request: no action is enabled at "done").
C1_FederationStopsBeforePassword ==
  (slast.name = "credential_type" /\ FedUrlOf(sresp) # "") =>
    /\ spc = "done"
    /\ sout.kind = "exit" /\ sout.err = "FederationNotSupported"
    /\ ~Issued("password")
    /\ "passwd" \notin DOMAIN slast.data

C1_Witness ==
  /\ slast.name = "credential_type"
  /\ FedUrlOf(sresp) = "https://adfs"
  /\ sout.err = "FederationNotSupported"
  /\ sreqs = <<"sso_init", "credential_type">>

\* a start tag that opens a POST form
IsPostForm(t) == t.tag = "form" /\ Lower(Get(t.attrs, "method", "")) = "post"

\* a hidden input with a name
IsHidden(t) == t.tag = "input" /\ Get(t.attrs, "type", None) = "hidden" /\ Get(t.attrs, "name", "") # ""

\* two sibling POST forms of which only the second has a SAMLResponse field
TwoSiblingForms(tags) ==
  /\ Len(tags) = 4
  /\ IsPostForm(tags[1]) /\ IsPostForm(tags[3])
  /\ IsHidden(tags[2]) /\ tags[2].attrs["name"] # "SAMLResponse"
  /\ IsHidden(tags[4]) /\ tags[4].attrs["name"] = "SAMLResponse"

\* C2: after a page with two sibling POST forms of which only the second
\* has a hidden SAMLResponse field, the parser holds the second form's
\* action and only the second form's hidden fields.
C2_SecondFormOnly ==
  (fpPage = << >> /\ TwoSiblingForms(fpFed)) =>
    /\ fp.action = fpFed[3].attrs["action"]
    /\ fp.fields = [SAMLResponse |-> fpFed[4].attrs["value"]]

\* the persisted entry of an account: << >> if it has none
EntryOf(f, b) == IF f.kind = "dict" /\ b \in DOMAIN f.d THEN <<f.d[b]>> ELSE << >>

\* C3: the persisted entry of an account b changes only in a step of a
\* call made for b; a call for another account leaves it as it was.
C3_Isolation ==
  [][\A b \in Accounts :
       EntryOf(file', b) # EntryOf(file, b) => (ret'.op # "init" /\ ret'.acct = b)]_vars

C3_Witness ==
  /\ ret.op = "save_basic" /\ ret.acct = "b" /\ ret.exc = "none"
  /\ file.kind = "dict" /\ DOMAIN file.d = {"a", "b"}
  /\ file.d["a"] = creds["a"]
  /\ auth_type(creds["a"]) = "oauth2"

\* C4: clear(a) on a file that holds accounts removes a's entry only: if
\* other accounts remain the file exists afterwards and holds the previous
\* entries without a's; if none remains the file is deleted.
C4_ClearRemovesOnlyOwnEntry ==
  [][\A a \in Accounts :
       (ret'.op = "clear" /\ ret'.acct = a /\ file.kind = "dict") =>
         IF (DOMAIN file.d) \ {a} # {}
           THEN /\ file'.kind = "dict"
                /\ file'.d = [k \in (DOMAIN file.d) \ {a} |-> file.d[k]]
           ELSE file'.kind = "missing"]_vars

C4_Witness ==
  /\ ret.op = "clear" /\ ret.acct = "a" /\ ret.exc = "none"
  /\ file.kind = "dict" /\ DOMAIN file.d = {"b"}
  /\ creds["a"] = EmptyDict

\* C5: loading an account's credential never raises, whatever the file is.
C5_LoadNeverRaises == ret.op = "load" => ret.exc = "none"

\* the call returned the cached access token and _refresh_token was not called
ReturnedCached ==
  /\ ~ret.refresh /\ ~ret.request
  /\ ret.exc = "none"
  /\ ret.val = ret.pre["access_token"]
  /\ creds[ret.acct] = ret.pre

\* C6: for an OAuth2 credential, get_access_token returns the cached token
\* without a refresh exactly when now < expires_at - 300; a token with
\* expires_at = now + 300 is refreshed, one with expires_at = now + 301 is
\* returned unchanged.
C6_MarginBoundary ==
  (ret.op = "get_access_token" /\ auth_type(ret.pre) = "oauth2") =>
    /\ ReturnedCached <=> (ret.t0 < ret.pre["expires_at"] - 300)
    /\ ret.pre["expires_at"] = ret.t0 + 300 => ret.refresh
    /\ ret.pre["expires_at"] = ret.t0 + 300 + 1 => ReturnedCached

C6_Witness ==
  /\ ret.op = "get_access_token" /\ auth_type(ret.pre) = "oauth2"
  /\ ret.pre["expires_at"] = ret.t0 + 300
  /\ ret.refresh /\ ret.request

\* the refresh-token grant of the last call succeeded
RefreshSucceeded ==
  /\ ret.op = "get_access_token" /\ ret.request
  /\ ret.resp.kind = "ok" /\ "access_token" \in DOMAIN ret.resp.body
  /\ ret.exc = "none"

\* C7: after a successful refresh the credential has the response's access
\* token, the response's refresh token if it has one and the previous one
\* otherwise, expires_at = now + expires_in (3600 if the response has no
\* expires_in), the file entry equals the credential, and the call
\* returned the new access token.
C7_RefreshSuccess ==
  RefreshSucceeded =>
    LET c == creds[ret.acct]
        body == ret.resp.body IN
    /\ c["access_token"] = body["access_token"]
    /\ ret.val = body["access_token"]
    /\ c["refresh_token"] = IF "refresh_token" \in DOMAIN body
                               THEN body["refresh_token"] ELSE ret.pre["refresh_token"]
    /\ c["expires_at"] = ret.t1 + (IF "expires_in" \in DOMAIN body
                                      THEN body["expires_in"] ELSE 3600)
    /\ c["auth_type"] = "oauth2"
    /\ EntryOf(file, ret.acct) = <<c>>

C7_Witness ==
  /\ RefreshSucceeded
  /\ ret.pre["refresh_token"] = DeviceRefreshToken
  /\ creds[ret.acct]["refresh_token"] = RefreshRefreshToken
  /\ ret.pre["access_token"] = DeviceAccessToken
  /\ ret.val = RefreshAccessToken
  /\ ret.t1 = ret.t0 + 1

\* C8: whenever the refresh request fails (transport error, HTTP error
\* status, or a body without an access token), get_access_token returns
\* None and raises nothing.
C8_RefreshFailureIsNone ==
  (ret.op = "get_access_token" /\ ret.request
     /\ (ret.resp.kind # "ok" \/ "access_token" \notin DOMAIN ret.resp.body)) =>
    (ret.exc = "none" /\ ret.val = None)

\* the kinds of token responses
IsSuccess(r) == r.kind = "ok" /\ "access_token" \in DOMAIN r.body
IsPending(r) == r.kind = "ok" /\ ~IsSuccess(r) /\ Get(r.body, "error", "") = "authorization_pending"
IsSlowDown(r) == r.kind = "ok" /\ ~IsSuccess(r) /\ Get(r.body, "error", "") = "slow_down"

\* the token endpoint answered pending, pending, success
ScriptPendingPendingSuccess ==
  /\ Len(posts) = 3
  /\ IsPending(posts[1]) /\ IsPending(posts[2]) /\ IsSuccess(posts[3])

\* C9 (as stated): with the responses pending, pending, success the flow
\* has slept exactly twice when it returns the token.
C9_TwoSleeps ==
  (dcPc = "Success" /\ ScriptPendingPendingSuccess) => sleeps = 2

\* C9 (amended): with the responses pending, pending, success the flow has
\* slept exactly three times, once before each of its three token
\* requests, when it returns the token of the third response.
C9_ThreeSleeps ==
  (dcPc = "Success" /\ ScriptPendingPendingSuccess) =>
    /\ sleeps = 3
    /\ ret.val = posts[3].body["access_token"]

C9_Witness ==
  /\ dcPc = "Success"
  /\ ScriptPendingPendingSuccess
  /\ ret.val = DeviceAccessToken

\* C10: a token request never decreases the interval; a pending response
\* leaves the interval, the device code and the credentials (in memory and
\* on file) unchanged and the loop goes on; a slow_down response adds
\* exactly 5 to the interval and the loop goes on.
C10_Interval ==
  [][(dcPc = "Polling" /\ Len(posts') = Len(posts) + 1) =>
       LET r == posts'[Len(posts')] IN
       /\ interval' >= interval
       /\ IsPending(r) => /\ interval' = interval
                          /\ dc' = dc
                          /\ creds' = creds
                          /\ file' = file
                          /\ dcPc' = "Polling"
       /\ IsSlowDown(r) => /\ interval' = interval + 5
                           /\ interval' > interval
                           /\ dc' = dc
                           /\ dcPc' = "Polling"]_vars

C10_Witness ==
  /\ Len(posts) = 2 /\ sleeps = 2
  /\ IsSlowDown(posts[1]) /\ IsPending(posts[2])
  /\ interval = Get(dc, "interval", DefaultInterval) + 5
  /\ now + Get(dc, "expires_in", DefaultDeviceExpiresIn) = expires_at_poll + (interval - 5) + interval
  /\ dcPc = "Polling"

\* the token response carries the admin-consent-required signature
HasConsentSignature(r) ==
  r.kind = "ok" /\ ~IsSuccess(r) /\ Get(r.body, "error_description", "") = "AADSTS65001"

\* C11: a token response whose error description carries AADSTS65001 ends
\* the flow in ConsentRequired, whatever its error code: it is the last
\* token request of the flow, and the outcome (an exit) differs from the
\* one of Failed (a RuntimeError).
C11_ConsentWhateverCode ==
  \A i \in 1..Len(posts) :
    HasConsentSignature(posts[i]) =>
      /\ i = Len(posts)
      /\ dcPc = "ConsentRequired"
      /\ ret.exc = "SystemExit"
      /\ ret.exc # OutcomeExc("Failed")

\* the terminal states of the device-code flow
Terminal == {"Success", "ConsentRequired", "Failed", "Timeout"}

\* every token response so far was pending or slow_down
AllContinue == \A i \in 1..Len(posts) : IsPending(posts[i]) \/ IsSlowDown(posts[i])

\* C12: with a positive interval and a clock that advances by the interval
\* at each sleep, a polling flow eventually reaches Success,
\* ConsentRequired, Failed or Timeout, whatever the token responses are;
\* it is in Timeout exactly when it ended after responses that were all
\* pending or slow_down, and then the clock has reached the session's
\* expiry; no step leaves a terminal state.
C12_Terminates ==
  /\ (dcPc = "Polling") ~> (dcPc \in Terminal)
  /\ [](dcPc = "Polling" => interval > 0)
  /\ []((dcPc \in Terminal /\ AllContinue) <=> dcPc = "Timeout")
  /\ [](dcPc = "Timeout" => now >= expires_at_poll)
  /\ [][dcPc \notin Terminal /\ (dcPc = "Polling" /\ now' # now => now' = now + interval)]_vars

C12_Witness ==
  /\ dcPc = "Timeout"
  /\ Len(posts) = 3
  /\ IsPending(posts[1]) /\ IsSlowDown(posts[3])
  /\ now >= expires_at_poll

\* C13: the first token response that contains an access token ends the
\* flow in Success: it is the last token request, the account's credential
\* is OAuth2 with the access token and the refresh token of that response
\* and expires_at = now + expires_in, the credentials file holds that
\* credential for the account, and the call returns that access token.
\* (A TokenManager is constructed only over a file that is not a JSON
\* document other than an object.)
C13_PollSuccess ==
  \A i \in 1..Len(posts) :
    (IsSuccess(posts[i]) /\ file # ListFile) =>
      LET body == posts[i].body
          c == creds[dcAcct] IN
      /\ i = Len(posts)
      /\ dcPc = "Success"
      /\ DOMAIN c = {"auth_type", "access_token", "refresh_token", "expires_at"}
      /\ c["auth_type"] = "oauth2"
      /\ c["access_token"] = body["access_token"]
      /\ c["refresh_token"] = (IF "refresh_token" \in DOMAIN body THEN body["refresh_token"] ELSE None)
      /\ c["expires_at"] = now + (IF "expires_in" \in DOMAIN body THEN body["expires_in"] ELSE 3600)
      /\ EntryOf(file, dcAcct) = <<c>>
      /\ ret.op = "run_device_code_flow" /\ ret.exc = "none"
      /\ ret.val = body["access_token"]

C13_Witness ==
  /\ dcPc = "Success"
  /\ Len(posts) = 2
  /\ IsSlowDown(posts[1]) /\ IsSuccess(posts[2])
  /\ posts[2].body = [access_token |-> DeviceAccessToken, refresh_token |-> DeviceRefreshToken, expires_in |-> 301]
  /\ creds["a"]["expires_at"] = now + 301
  /\ EntryOf(file, "a") = <<creds["a"]>>
  /\ EntryOf(file, "b") # << >>
  /\ ret.val = DeviceAccessToken

\* C14: when the URL that step 1 ends at has a host other than the
\* identity provider's, the run fails with ProtocolMismatch and issues no
\* further request; it goes on to step 2 and to a second request only when
\* that host is the identity provider's.
C14_EntryCheckpoint ==
  /\ (sreqs = <<"sso_init">> /\ sresp.kind = "ok" /\ sresp.url.host # MS_HOST) =>
       (spc = "done" /\ sout = Exit("ProtocolMismatch", << >>))
  /\ (spc = "credential_type" \/ Len(sreqs) = 2) => surl.host = MS_HOST
  /\ sout.err = "ProtocolMismatch" => sreqs = <<"sso_init">>

\* C15: the request to the mobile-launch endpoint is issued only when the
\* host of the current URL is the platform's; with any other host the run
\* fails with SSOIncomplete and that request is not issued.
C15_ReentryCheckpoint ==
  /\ (spc = "launch" \/ Issued("launch")) => surl.host = MOODLE_HOST
  /\ (spc = "done" /\ sout.err = "SSOIncomplete") =>
       (surl.host # MOODLE_HOST /\ ~Issued("launch"))

\* the run is just past the password request, answered with a page that
\* carries the auth-error signature
AuthErrorPage ==
  /\ sreqs = <<"sso_init", "credential_type", "password">>
  /\ sresp.kind = "ok"
  /\ HasText(sresp.page, "AADSTS")

\* C16: when the page of the password response carries the auth-error
\* signature, the run fails with AuthFailed and the error code and the
\* description found in the page, also when the page carries the
\* stay-signed-in signature or a SAMLResponse form; the password request
\* is then the last request of the run.
C16_AuthFailedFirst ==
  /\ AuthErrorPage =>
       /\ spc = "done"
       /\ sout.kind = "exit" /\ sout.err = "AuthFailed"
       /\ sresp.page.code # "" => sout.detail[1] = sresp.page.code
       /\ sresp.page.errtxt # "" => sout.detail[2] = sresp.page.errtxt
  /\ sout.err = "AuthFailed" =>
       (AuthErrorPage /\ ~Issued("kmsi") /\ ~Issued("saml_post") /\ ~Issued("launch"))

C16_Witness ==
  /\ AuthErrorPage
  /\ HasInterrupt(sresp.page) /\ sresp.page.hasConfig
  /\ SamlFormFound(sresp.page)
  /\ InUrl(MOODLE_HOST, sresp.url)
  /\ sout = Exit("AuthFailed", <<"AADSTS50126", "bad password">>)

\* the number of requests of the run with a name
Count(name) == Cardinality({ i \in 1..Len(sreqs) : sreqs[i] = name })

\* the run is just past the password request, answered with a page that
\* carries no auth-error signature
PasswordAccepted ==
  /\ sreqs = <<"sso_init", "credential_type", "password">>
  /\ sresp.kind = "ok"
  /\ ~HasText(sresp.page, "AADSTS")

\* C17: a password response page with the interrupt signature (and no
\* auth-error signature) is followed by exactly one continue request, and
\* the current page and URL become those of its response; without the
\* signature no continue request is issued and the current page and URL
\* are those of the password response.
C17_InterruptBranch ==
  /\ (PasswordAccepted /\ HasInterrupt(sresp.page)) => spc = "kmsi"
  /\ (PasswordAccepted /\ ~HasInterrupt(sresp.page)) =>
       (spc # "kmsi" /\ spage = sresp.page /\ surl = sresp.url)
  /\ Count("kmsi") <= 1
  /\ (Len(sreqs) = 4 /\ sreqs[4] = "kmsi") =>
       /\ slast.name = "kmsi"
       /\ slast.data["LoginOptions"] = "1"
       /\ sresp.kind = "ok" => (spage = sresp.page /\ surl = sresp.url)

\* the fields the run takes from a $Config blob
RequiredFields == {"sFT", "sCtx", "canary", "urlPost"}

\* the page has a $Config blob with every required field
ConfigComplete(page) == page.hasConfig /\ RequiredFields \subseteq DOMAIN page.config

\* C18: when the $Config blob is absent from the entry page or from the
\* interrupt page, or lacks a required field, the run fails with
\* ParseError, and no request is built from the absent value: the run
\* does not come to post the password, or the continue choice, with a
\* configuration that lacks a required field.
C18_ParseFailsFast ==
  /\ (sreqs = <<"sso_init">> /\ sresp.kind = "ok" /\ InUrl(MS_HOST, sresp.url)
        /\ ~ConfigComplete(sresp.page)) =>
       (spc = "done" /\ sout = Exit("ParseError", << >>))
  /\ (PasswordAccepted /\ HasInterrupt(sresp.page) /\ ~ConfigComplete(sresp.page)) =>
       (spc = "done" /\ sout = Exit("ParseError", << >>))
  /\ spc \in {"credential_type", "password"} => RequiredFields \subseteq DOMAIN sconfig
  /\ spc = "kmsi" => RequiredFields \subseteq DOMAIN spage.config

\* the hidden fields of the form that starts at tags[k]: those of the
\* inputs up to the next form
FieldsOfForm(tags, k) ==
  LET J == { j \in (k+1)..Len(tags) :
               IsHidden(tags[j]) /\ \A m \in (k+1)..j : tags[m].tag # "form" }
      names == { tags[j].attrs["name"] : j \in J }
      last(n) == CHOOSE j \in J : tags[j].attrs["name"] = n
                                  /\ \A m \in J : tags[m].attrs["name"] = n => m <= j IN
  [n \in names |-> Get(tags[last(n)].attrs, "value", "")]

\* the POST forms of the page that have a hidden SAMLResponse field
SamlPostForms(page) ==
  { k \in 1..Len(page.tags) :
      IsPostForm(page.tags[k]) /\ "SAMLResponse" \in DOMAIN FieldsOfForm(page.tags, k) }

\* C19: when the current page has a POST form with a hidden SAMLResponse
\* field, exactly one request posts that form's hidden fields to its
\* action resolved against the current URL, and the current page and URL
\* become those of the response; when it has no such form no request is
\* sent and the current page and URL stay as they were.
C19_SamlPostExact ==
  /\ Count("saml_post") <= 1
  /\ spc = "saml_post" => SamlPostForms(spage) # {}
  /\ ((spc = "launch" \/ sout.err = "SSOIncomplete") /\ ~Issued("saml_post")) =>
       (SamlPostForms(spage) = {} /\ spage = sresp.page /\ surl = sresp.url)
  /\ (slast.name = "saml_post" /\ sresp.kind = "ok") =>
       (spage = sresp.page /\ surl = sresp.url)
  /\ (slast.name = "saml_post" /\ sresp.kind = "transport") =>
       \E k \in SamlPostForms(spage) :
         /\ slast.data = FieldsOfForm(spage.tags, k)
         /\ slast.url = urljoin(surl, spage.tags[k].attrs["action"])

\* the run is past the launch request, which was answered
LaunchAnswered == slast.name = "launch" /\ sresp.kind = "ok"

\* the redirect statuses of HTTP
RedirectStatuses == {301, 302, 303, 307, 308}

TokenExtracted ==
  LaunchAnswered /\ StatusAccepted(sresp.status) /\ sresp.hasToken

\* a validly padded base64 string of which trailing '=' were removed
StrippedValid(raw) == raw.data % 4 # 1 /\ raw.eq <= CanonicalPad(raw.data)

\* C21: restoring the padding of an extracted value appends '=' until
\* the length is a multiple of 4 and changes nothing else; for a validly
\* padded base64 string that lost trailing '=' characters the restored
\* value decodes to the original payload, and the run goes on with it.
C21_PaddingRoundTrip ==
  TokenExtracted =>
    LET raw == sresp.raw
        fixed == FixPadding(raw) IN
    /\ (fixed.data + fixed.eq) % 4 = 0
    /\ fixed.data = raw.data /\ fixed.text = raw.text
    /\ fixed.eq >= raw.eq /\ fixed.eq - raw.eq < 4
    /\ StrippedValid(raw) =>
         /\ fixed.eq = CanonicalPad(raw.data)
         /\ B64Decode(fixed) = [exc |-> "none", text |-> raw.text]
         /\ sout.kind # "raise"
         /\ sout.kind = "return" => sout.detail = Split(raw.text)[2]

C21_Witness ==
  /\ TokenExtracted
  /\ sresp.raw = RawToken(2, 1, <<"P", Delim, "T">>)
  /\ FixPadding(sresp.raw).eq = 2
  /\ sout = Return(<<"T">>)

\* the decoded text of the token value, when the run has decoded one
Decoded == B64Decode(FixPadding(sresp.raw))

\* the positions of ":::" in a text
DelimsOf(text) == { i \in 1..Len(text) : text[i] = Delim }

\* the text between the first ":::" and the next one (or the end)
SecondPart(text) ==
  LET d1 == CHOOSE i \in DelimsOf(text) : \A j \in DelimsOf(text) : i <= j
      later == { j \in DelimsOf(text) : j > d1 } \cup {Len(text) + 1}
      d2 == CHOOSE i \in later : \A j \in later : i <= j IN
  SubSeq(text, d1 + 1, d2 - 1)

\* C22: a decoded text without ":::" ends the run with MalformedToken;
\* otherwise the run returns the text between the first ":::" and the
\* next one, whether or not a third part follows: "P:::T" and
\* "P:::T:::Q" give T, "P" gives MalformedToken.
C22_TokenSplit ==
  (TokenExtracted /\ Decoded.exc = "none") =>
    /\ DelimsOf(Decoded.text) = {} => sout = Exit("MalformedToken", << >>)
    /\ DelimsOf(Decoded.text) # {} => sout = Return(SecondPart(Decoded.text))
    /\ Decoded.text = <<"P", Delim, "T">> => sout = Return(<<"T">>)
    /\ Decoded.text = <<"P", Delim, "T", Delim, "Q">> => sout = Return(<<"T">>)
    /\ Decoded.text = <<"P">> => sout = Exit("MalformedToken", << >>)

C22_Witness ==
  /\ TokenExtracted
  /\ Decoded.exc = "none"
  /\ Decoded.text = <<"P", Delim, "T", Delim, "Q">>
  /\ sout = Return(<<"T">>)

\* the place of a request in the order of the steps of refresh_token
Rank(name) ==
  CASE name = "sso_init" -> 1
    [] name = "credential_type" -> 2
    [] name = "password" -> 3
    [] name = "kmsi" -> 4
    [] name = "saml_post" -> 5
    [] name = "launch" -> 6

\* a token response after which the poll loop goes on
Continues(r) == IsPending(r) \/ IsSlowDown(r)

\* C23: in a run of refresh_token the requests follow the order of the
\* steps and none is issued twice; once the run has ended no request
\* follows. In the device-code flow every token response but the last
\* was pending or slow_down, a failed device-code request is followed by
\* no token request, and once the flow has ended no request follows.
C23_NoRetry ==
  /\ [](\A i, j \in 1..Len(sreqs) : i < j => Rank(sreqs[i]) < Rank(sreqs[j]))
  /\ [](sout.kind # "running" => spc = "done")
  /\ [][sout.kind # "running" => sreqs' = sreqs]_vars
  /\ [](\A i \in 1..(Len(posts) - 1) : Continues(posts[i]))
  /\ []((Len(posts) > 0 /\ ~Continues(posts[Len(posts)])) => dcPc # "Polling")
  /\ []((dcPc = "NetworkError" /\ ret.val = None /\ dc = NoSession) => posts = << >>)
  /\ [][dcPc \notin {"idle", "Polling"} => (posts' = posts /\ sleeps' = sleeps)]_vars

C23_Witness ==
  /\ sreqs = <<"sso_init", "credential_type", "password", "kmsi", "saml_post", "launch">>
  /\ sout.kind = "return"
  /\ spc = "done"
  /\ posts = << >>

\* the failures of refresh_token that the contract names
TypedFailures ==
  {"ProtocolMismatch", "ParseError", "FederationNotSupported", "AuthFailed",
   "SSOIncomplete", "UnexpectedResponse", "NoTokenInRedirect", "MalformedToken"}

\* C24: a run of refresh_token ends either by returning a non-empty token
\* or with one of the typed failures (a transport exception counting as
\* NetworkError); it never returns an empty token and never ends in
\* another exception.
C24_TokenOrTypedFailure ==
  spc = "done" =>
    \/ sout.kind = "return" /\ sout.detail # << >>
    \/ sout.kind = "exit" /\ sout.err \in TypedFailures
    \/ sout.kind = "raise" /\ sout.err = "RequestException"

\* C25: in every state in which the credential file exists after a save
\* wrote it, the states between the statements of _save and the states
\* after clear rewrote the file included, the file is readable and
\* writable by its owner only and its directory is owner-only.
C25_OwnerOnly ==
  (written /\ Exists(file)) => (fmode = "0600" /\ dmode = "0700")

\* exactly Basic{password}
IsBasic(c) == DOMAIN c = {"auth_type", "password"} /\ c["auth_type"] = "basic"

\* exactly OAuth2{access_token, refresh_token, expires_at}
IsOAuth2(c) ==
  /\ DOMAIN c = {"auth_type", "access_token", "refresh_token", "expires_at"}
  /\ c["auth_type"] = "oauth2"

\* C26: the credential of an account, in memory and in the file, is
\* either exactly Basic{password} or exactly OAuth2{access_token,
\* refresh_token, expires_at} (or there is none); it never has fields of
\* both variants.
C26_Tagged ==
  /\ \A a \in Accounts : creds[a] = EmptyDict \/ IsBasic(creds[a]) \/ IsOAuth2(creds[a])
  /\ file.kind = "dict" =>
       \A a \in DOMAIN file.d : IsBasic(file.d[a]) \/ IsOAuth2(file.d[a])

C26_Witness ==
  /\ RefreshSucceeded /\ ret.acct = "a"
  /\ IsOAuth2(ret.pre)
  /\ IsOAuth2(creds["a"]) /\ creds["a"]["access_token"] = RefreshAccessToken
  /\ IsBasic(creds["b"])
  /\ EntryOf(file, "a") = <<creds["a"]>>
  /\ EntryOf(file, "b") = <<creds["b"]>>

\* the places of the log at which the wrapped operation was invoked
FnCalls == { i \in 1..Len(wlog) : wlog[i].ev = "fn" }

FlowStepNotSuccess ==
  /\ dcPc # "idle" \/ dcPc' # "idle"
  /\ dcPc # "Success" /\ dcPc' # "Success"

\* C28: no step of a device-code flow that ends in another outcome than
\* Success (a failed device-code request, ConsentRequired, Failed,
\* Timeout, a transport error of a token request) changes the in-memory
\* credentials or the credentials file: they are as they were when the
\* flow started. (For a credentials file over which a TokenManager can
\* be constructed.)
C28_FlowFrame ==
  [][(FlowStepNotSuccess /\ file # ListFile) => (creds' = creds /\ file' = file)]_vars

C28_Witness ==
  /\ dcPc = "Timeout"
  /\ Len(posts) >= 2
  /\ IsBasic(creds["a"])
  /\ EntryOf(file, "a") = <<creds["a"]>>
  /\ ret.exc = "TimeoutError"

\* the call recorded in r is a get_access_token whose refresh attempt did
\* not succeed: no refresh token, a transport or HTTP error, or a
\* response without an access token
RefreshFailed(r) ==
  /\ r.op = "get_access_token" /\ r.refresh
  /\ \/ ~r.request
     \/ r.resp.kind # "ok"
     \/ "access_token" \notin DOMAIN r.resp.body

\* C29: a refresh attempt that does not succeed leaves the account's
\* in-memory credential (access_token, refresh_token and expires_at
\* included) and the credentials file as they were.
C29_RefreshFailureFrame ==
  /\ [][RefreshFailed(ret') => (creds' = creds /\ file' = file)]_vars
  /\ [](RefreshFailed(ret) => creds[ret.acct] = ret.pre)

C29_Witness ==
  /\ RefreshFailed(ret)
  /\ ret.request /\ ret.resp.kind = "ok"
  /\ ret.exc = "KeyError"
  /\ IsOAuth2(creds[ret.acct])
  /\ creds[ret.acct]["refresh_token"] = DeviceRefreshToken
  /\ EntryOf(file, ret.acct) = <<creds[ret.acct]>>

\* C30: every token request of the poll loop is sent strictly before the
\* session's expiry: while a flow that has sent a token request is
\* running or has just ended, the clock, which stands at the time of the
\* last request, is below expires_at_poll.
C30_NoRequestAfterExpiry ==
  (dcPc # "idle" /\ posts # << >>) => now < expires_at_poll

\* C31: whenever _ensure_connected returns normally an IMAP connection is
\* established: at the two places of _with_retry that follow such a
\* return (the call of fn in the try block and the one in the handler),
\* self.conn is not None, whatever credential the TokenManager holds.
C31_ConnectedAfterEnsure ==
  wpc \in {"fn", "fn_retry"} => conn # "None"

\* connect was entered with a saved credential and connecting with it
\* failed with imaplib.IMAP4.error
SavedFailed ==
  /\ has_saved_creds(cpre.creds)
  /\ cpc \in {"clear", "choose", "basic", "oauth2"}

\* C32: when connect finds a saved credential and connecting with it fails
\* with an authentication error, then at the point where re-authentication
\* starts (the chooser) the account has no credential, in memory or in
\* the file; and from the failure on, through the re-authentication,
\* the entries of the other accounts in the file are the ones that were
\* there when connect was entered.
C32_ClearedBeforeReauth ==
  /\ (SavedFailed /\ cpc = "choose") =>
       /\ creds["a"] = EmptyDict
       /\ EntryOf(file, "a") = << >>
  /\ SavedFailed =>
       \A b \in Accounts \ {"a"} : EntryOf(file, b) = EntryOf(cpre.file, b)

C32_Witness ==
  /\ cpc = "choose"
  /\ IsOAuth2(cpre.creds)
  /\ cpre.creds["refresh_token"] = DeviceRefreshToken
  /\ ~TokenValid(now, cpre.creds["expires_at"])
  /\ conn = "None"
  /\ EntryOf(cpre.file, "a") = <<cpre.creds>>
  /\ \E c \in ConnectCreds :
       /\ IsBasic(c)
       /\ EntryOf(cpre.file, "b") = <<c>>
       /\ file = DumpFile([b |-> c])
  /\ creds["a"] = EmptyDict
====
